---- MODULE Spec2Model ----
(***************************************************************************)
(* A model of idaes_connectivity: the Connectivity class (base.py), which  *)
(* parses a connectivity matrix into units, streams and connections, the   *)
(* CSV, Mermaid and D2 formatters that render it, and the csv mode of the  *)
(* command-line program (cli.py).                                          *)
(*                                                                         *)
(* Representation.                                                         *)
(*  - A Python str that the program inspects (a cell, a unit or stream     *)
(*    name) is a sequence of one-character strings; text the program       *)
(*    produces (abbreviations, output lines) is a TLA+ string built with   *)
(*    \o, as the f-strings of the source build it.                         *)
(*  - A cell is a record [t, i, s]: t is the Python type ("str", "int",    *)
(*    "float", "none"), i the value of an int or, for a finite float, its  *)
(*    value in tenths, s the characters of a str (or the word inf / nan of *)
(*    a non-finite float).                                                 *)
(*  - A dict is a sequence of [k, v] records in insertion order: assigning *)
(*    to a key already present keeps its position, as in Python.           *)
(*  - None in a connections pair is <<>>, a unit abbreviation a is <<a>>.  *)
(*  - An exception is its class name; "none" means the call returned.      *)
(***************************************************************************)
EXTENDS Integers, Sequences, FiniteSets, TLC

VARIABLES
    input,      \* the argument of Connectivity(...): [kind, named, table]
    conn,       \* the Connectivity object (built = FALSE: none exists)
    res,        \* the last operation: [op, exc, why], exc "none" if it returned
    csvOut,     \* rows written by the last operation, if it was CSV.write
    text,       \* lines written by the last operation, if it was a
                \* Mermaid.write or a D2.write; the class returned, if it
                \* was a get_unit_class
    fmtr,       \* the formatter instance of the last Mermaid or D2 constructor
    cli,        \* the run of csv_main: arguments, result, output destinations
    heap,       \* the objects of the caller that have a value attribute:
                \* heap[o] is o.value now
    out,        \* the last write(output_file) to a file or a stream: what
                \* it returned and the state of the destination
    passed,     \* what the caller last passed as the value of "T" of the
                \* first stream and of the first unit, and has not cleared,
                \* and the keyword arguments of its last formatter
    defaults,   \* the class attributes Mermaid.defaults and D2.defaults
    proc,       \* the method that runs step by step, if any: its position
                \* and its local variables
    twin        \* a second Connectivity that is given the same calls, and
                \* what the last call on it gave: [conn, exc, text]

vars ==
    <<input, conn, res, csvOut, text, fmtr, cli, heap, out, passed, defaults, proc,
      twin>>

(***************************************************************************)
(* Bounds of the model.                                                    *)
(***************************************************************************)
\* most data rows of an input table
MaxRows == 2
\* most cells of a row beyond the last header column
MaxExcess == 1
\* unit columns of the wide tables (the abbreviation passes Z at column 25)
WideCols == 27

(***************************************************************************)
(* Characters and strings.                                                 *)
(***************************************************************************)
Digits == <<"0", "1", "2", "3", "4", "5", "6", "7", "8", "9">>

IsDigit(c) == \E d \in 1..10 : Digits[d] = c

DigitVal(c) == (CHOOSE d \in 1..10 : Digits[d] = c) - 1

IsSpace(c) == c \in {" ", "\t"}

\* the str a character sequence stands for
RECURSIVE Text(_)
Text(cs) == IF cs = <<>> THEN "" ELSE cs[1] \o Text(Tail(cs))

\* str(n) for an int n, as characters
RECURSIVE NatChars(_)
NatChars(n) == IF n < 10 THEN <<Digits[n + 1]>>
               ELSE NatChars(n \div 10) \o <<Digits[(n % 10) + 1]>>

IntChars(n) == IF n < 0 THEN <<"-">> \o NatChars(-n) ELSE NatChars(n)

\* s.strip()
RECURSIVE LStrip(_)
LStrip(cs) == IF cs # <<>> /\ IsSpace(cs[1]) THEN LStrip(Tail(cs)) ELSE cs

RECURSIVE RStrip(_)
RStrip(cs) == IF cs # <<>> /\ IsSpace(cs[Len(cs)])
              THEN RStrip(SubSeq(cs, 1, Len(cs) - 1)) ELSE cs

Strip(cs) == RStrip(LStrip(cs))

(***************************************************************************)
(* Python's float(str) and int(float), on the characters of the model:     *)
(* optional surrounding whitespace, an optional sign, then inf, nan, or    *)
(* digits with an optional point.  A parsed float is [ok, kind, neg, ip]:  *)
(* ip is its integer part, which is all that int() keeps.                  *)
(***************************************************************************)
RECURSIVE DigitsValue(_)
DigitsValue(cs) == IF cs = <<>> THEN 0
                   ELSE 10 * DigitsValue(SubSeq(cs, 1, Len(cs) - 1))
                        + DigitVal(cs[Len(cs)])

AllDigits(cs) == \A j \in 1..Len(cs) : IsDigit(cs[j])

BadFloat == [ok |-> FALSE, kind |-> "bad", neg |-> FALSE, ip |-> 0]

ParseUnsigned(cs, neg) ==
    IF cs = <<"i", "n", "f">>
    THEN [ok |-> TRUE, kind |-> "inf", neg |-> neg, ip |-> 0]
    ELSE IF cs = <<"n", "a", "n">>
    THEN [ok |-> TRUE, kind |-> "nan", neg |-> neg, ip |-> 0]
    ELSE IF \E p \in 1..Len(cs) : cs[p] = "."
    THEN LET p  == CHOOSE q \in 1..Len(cs) : cs[q] = "."
             ip == SubSeq(cs, 1, p - 1)
             fr == SubSeq(cs, p + 1, Len(cs))
         IN IF AllDigits(ip) /\ AllDigits(fr) /\ Len(ip) + Len(fr) > 0
            THEN [ok |-> TRUE, kind |-> "fin", neg |-> neg,
                  ip |-> DigitsValue(ip)]
            ELSE BadFloat
    ELSE IF cs # <<>> /\ AllDigits(cs)
    THEN [ok |-> TRUE, kind |-> "fin", neg |-> neg, ip |-> DigitsValue(cs)]
    ELSE BadFloat

ParseFloat(cs) ==
    LET Signed(t) == IF t # <<>> /\ t[1] \in {"+", "-"}
                     THEN ParseUnsigned(Tail(t), t[1] = "-")
                     ELSE ParseUnsigned(t, FALSE)
    IN Signed(Strip(cs))

\* a float cell [t |-> "float", i |-> tenths, s |-> <<>> or inf / nan]
FloatOfCell(c) ==
    IF c.s = <<>>
    THEN [ok |-> TRUE, kind |-> "fin", neg |-> c.i < 0,
          ip |-> (IF c.i < 0 THEN -c.i ELSE c.i) \div 10]
    ELSE [ok |-> TRUE, kind |-> Text(c.s), neg |-> FALSE, ip |-> 0]

\* int(x) for a float x: [exc, v]
NormOk(v) == [exc |-> "none", v |-> v]

NormErr(e) == [exc |-> e, v |-> 0]

IntOfFloat(f) ==
    IF f.kind = "inf" THEN NormErr("OverflowError")
    ELSE IF f.kind = "nan" THEN NormErr("ValueError")
    ELSE NormOk(IF f.neg THEN -f.ip ELSE f.ip)

(***************************************************************************)
(* Cells and dicts.                                                        *)
(***************************************************************************)
StrCell(cs) == [t |-> "str", i |-> 0, s |-> cs]

IntCell(n) == [t |-> "int", i |-> n, s |-> <<>>]

FloatCell(tenths) == [t |-> "float", i |-> tenths, s |-> <<>>]

InfCell == [t |-> "float", i |-> 0, s |-> <<"i", "n", "f">>]

NanCell == [t |-> "float", i |-> 0, s |-> <<"n", "a", "n">>]

NoneCell == [t |-> "none", i |-> 0, s |-> <<>>]

\* python None / a present value, in a connections pair
None == <<>>

Some(a) == <<a>>

DictHas(d, k) == \E j \in 1..Len(d) : d[j].k = k

DictGet(d, k) == d[CHOOSE j \in 1..Len(d) : d[j].k = k].v

DictSet(d, k, v) ==
    IF DictHas(d, k)
    THEN [j \in 1..Len(d) |-> IF d[j].k = k THEN [k |-> k, v |-> v] ELSE d[j]]
    ELSE Append(d, [k |-> k, v |-> v])

DictKeys(d) == [j \in 1..Len(d) |-> d[j].k]

DictValues(d) == [j \in 1..Len(d) |-> d[j].v]

\* the dict left by assigning d[items[j].k] = items[j].v for j = 1, 2, ...
\* to an empty dict: a key stands where it was first assigned and holds the
\* value assigned last
DictFromItems(items) ==
    LET first == {j \in 1..Len(items) :
                     \A i \in 1..(j - 1) : items[i].k # items[j].k}
        last(k) == CHOOSE j \in 1..Len(items) :
                       /\ items[j].k = k
                       /\ \A i \in (j + 1)..Len(items) : items[i].k # k
        nth(n) == CHOOSE j \in first : Cardinality({i \in first : i < j}) = n - 1
    IN [n \in 1..Cardinality(first) |->
           [k |-> items[nth(n)].k, v |-> items[last(items[nth(n)].k)].v]]

\* {k: v for k in ks}
DictFromKeys(ks, v) == DictFromItems([j \in 1..Len(ks) |-> [k |-> ks[j], v |-> v]])

(***************************************************************************)
(* Connectivity._build_units, _build_streams, _build_connections.          *)
(***************************************************************************)
DEFAULT_UNIT_CLASS == "Component"

\* chr(ord("A") + i), for the 26 letters (c1 stays below 26, and c2 does for
\* fewer than 702 columns)
AsciiFromA == <<"A", "B", "C", "D", "E", "F", "G", "H", "I", "J", "K", "L",
                "M", "N", "O", "P", "Q", "R", "S", "T", "U", "V", "W", "X",
                "Y", "Z">>

Chr(i) == AsciiFromA[i + 1]

\* UnitAbbr without the second letter: the prefix for c2 is forgotten
UnitAbbrOneLetter(c1, c2) == "Unit_" \o Chr(c1)

\* the abbreviation made from the counters c1, c2 of _build_units
UnitAbbr(c1, c2) == "Unit_" \o (IF c2 > -1 THEN Chr(c2) ELSE "") \o Chr(c1)

\* the counters of _build_units when the loop reaches the k-th unit column:
\* c1 starts at 1 and is incremented for every column, restarting at 0 when
\* it reaches 26; c2 starts at -1 and is incremented at every restart of c1
UnitC1(k) == k % 26

UnitC2(k) == (k \div 26) - 1

\* _build_units: units[s] = abbr for every s of header[1:], in order
BuildUnits(header) ==
    DictFromItems([k \in 1..(Len(header) - 1) |->
                      [k |-> header[k + 1], v |-> UnitAbbr(UnitC1(k), UnitC2(k))]])

StreamAbbr(n) == "Stream_" \o ToString(n)

\* the loop of _build_streams, from row j with counter n
RECURSIVE BuildStreamsFrom(_, _, _, _)
BuildStreamsFrom(rows, j, n, streams) ==
    IF j > Len(rows) THEN streams
    ELSE IF rows[j] = <<>> THEN BuildStreamsFrom(rows, j + 1, n, streams)
    ELSE BuildStreamsFrom(rows, j + 1, n + 1,
                          DictSet(streams, rows[j][1], StreamAbbr(n)))

BuildStreams(rows) == BuildStreamsFrom(rows, 1, 3, <<>>)

\* the integer connection value of a cell: [exc, why, v]
Norm(e, w, v) == [exc |-> e, why |-> w, v |-> v]

ConnValue(c) ==
    LET Whole(n) == Norm(n.exc, "int", n.v)
        Float(f) == IF ~f.ok THEN Norm("ValueError", "float", 0)
                    ELSE Whole(IntOfFloat(f))
    IN IF c.t = "str"
       THEN IF Strip(c.s) = <<>> THEN Norm("none", "", 0)
            ELSE Float(ParseFloat(c.s))
       ELSE IF c.t = "int" THEN Norm("none", "", c.i)
       ELSE IF c.t = "float" THEN Whole(IntOfFloat(FloatOfCell(c)))
       ELSE Norm("ValueError", "type", 0)

\* CheckedValue without the check: any integer is taken as a connection value
CheckedValueUnchecked(c) == ConnValue(c)

\* the check of the connection value
CheckedValue(c) ==
    LET Check(n) == IF n.exc = "none" /\ n.v \notin {-1, 0, 1}
                    THEN Norm("ValueError", "range", n.v) ELSE n
    IN Check(ConnValue(c))

Max(a, b) == IF a >= b THEN a ELSE b

BuildResult(e, w, cx) == [exc |-> e, why |-> w, connections |-> cx]

\* the first and the last of a set of column indexes
Least(S) == CHOOSE a \in S : \A b \in S : a <= b

Greatest(S) == CHOOSE a \in S : \A b \in S : a >= b

\* UnitAbbrOf with the unit's name in place of its abbreviation
UnitNameOf(units, header, col) == Text(header[col + 1].s)

\* unit_name = self._header[col]; unit_abbr = units[unit_name]
UnitAbbrOf(units, header, col) == DictGet(units, header[col + 1])

\* one row of the loop, the first column that writes a slot winning
BuildRowFirstWins(header, units, streams, row, cx) ==
    LET n_cols      == Len(header)
        stream_abbr == DictGet(streams, row[1])
        Raise(value, col) ==
            IF col + 1 > Len(row) THEN BuildResult("IndexError", "row", cx)
            ELSE BuildResult(value[col].exc, value[col].why, cx)
        Endpoint(old, assigning) ==
            IF assigning = {} THEN old
            ELSE Some(UnitAbbrOf(units, header, Least(assigning)))
        Assigned(pair, outlet, inlet) ==
            BuildResult("none", "",
                DictSet(cx, stream_abbr,
                        <<Endpoint(pair[1], outlet), Endpoint(pair[2], inlet)>>))
        Loop(value, raising) ==
            IF raising # {} THEN Raise(value, Least(raising))
            ELSE Assigned(DictGet(cx, stream_abbr),
                          {col \in 1..(n_cols - 1) :
                              value[col].v # 0 /\ Max(value[col].v, 0) = 0},
                          {col \in 1..(n_cols - 1) :
                              value[col].v # 0 /\ Max(value[col].v, 0) = 1})
        Checked(value) ==
            Loop(value, {col \in 1..(n_cols - 1) :
                            col + 1 > Len(row) \/ value[col].exc # "none"})
    IN Checked([col \in 1..(Len(row) - 1) |-> CheckedValue(row[col + 1])])

\* the loop over range(1, n_cols) for one row.  value[col] is the checked
\* connection value of row[col], for the columns the row has.  The loop
\* stops at the first column that raises: the column the row lacks
\* (row[col] raises IndexError) or the column whose value is refused.
\* Otherwise every column with a value other than 0 assigns
\* connections[stream_abbr][conn_index], so each index keeps the unit of
\* the last column that assigned it.
BuildRow(header, units, streams, row, cx) ==
    LET n_cols      == Len(header)
        stream_abbr == DictGet(streams, row[1])
        Raise(value, col) ==
            IF col + 1 > Len(row) THEN BuildResult("IndexError", "row", cx)
            ELSE BuildResult(value[col].exc, value[col].why, cx)
        Endpoint(old, assigning) ==
            IF assigning = {} THEN old
            ELSE Some(UnitAbbrOf(units, header, Greatest(assigning)))
        Assigned(pair, outlet, inlet) ==
            BuildResult("none", "",
                DictSet(cx, stream_abbr,
                        <<Endpoint(pair[1], outlet), Endpoint(pair[2], inlet)>>))
        Loop(value, raising) ==
            IF raising # {} THEN Raise(value, Least(raising))
            ELSE Assigned(DictGet(cx, stream_abbr),
                          {col \in 1..(n_cols - 1) :
                              value[col].v # 0 /\ Max(value[col].v, 0) = 0},
                          {col \in 1..(n_cols - 1) :
                              value[col].v # 0 /\ Max(value[col].v, 0) = 1})
        Checked(value) ==
            Loop(value, {col \in 1..(n_cols - 1) :
                            col + 1 > Len(row) \/ value[col].exc # "none"})
    IN Checked([col \in 1..(Len(row) - 1) |-> CheckedValue(row[col + 1])])

\* the loop over the rows, from row j
RECURSIVE BuildConnectionsFrom(_, _, _, _, _, _)
BuildConnectionsFrom(header, rows, units, streams, j, cx) ==
    IF j > Len(rows) THEN BuildResult("none", "", cx)
    ELSE IF rows[j] = <<>>
    THEN BuildConnectionsFrom(header, rows, units, streams, j + 1, cx)
    ELSE LET NextRow(r) ==
                 IF r.exc # "none" THEN r
                 ELSE BuildConnectionsFrom(header, rows, units, streams, j + 1,
                                           r.connections)
         IN NextRow(BuildRow(header, units, streams, rows[j], cx))

BuildConnections(header, rows, units, streams) ==
    BuildConnectionsFrom(header, rows, units, streams, 1,
                         DictFromKeys(DictValues(streams), <<None, None>>))

(***************************************************************************)
(* Connectivity.__init__ for the tabular inputs.  An input is              *)
(* [kind, named, table]: kind "data" is input_data (a list of rows),       *)
(* "path" is input_file given as a str or Path, "stream" is input_file     *)
(* given as an open text stream, which has a name attribute (an opened     *)
(* file) or not (an in-memory buffer).  For the file kinds, table is what  *)
(* csv.reader yields: rows of str, a blank line being the empty row.       *)
(***************************************************************************)
NoConn ==
    [built |-> FALSE, header |-> <<>>, rows |-> <<>>, units |-> <<>>,
     streams |-> <<>>, connections |-> <<>>, unit_classes |-> <<>>,
     unit_values |-> <<>>, stream_values |-> <<>>]

Raised(e, w) == [exc |-> e, why |-> w, conn |-> NoConn]

\* lines 173-179, once _header and _rows are set
BuildAll(header, rows) ==
    LET Built(units, streams, r) ==
            IF r.exc # "none" THEN Raised(r.exc, r.why)
            ELSE [exc |-> "none", why |-> "",
                  conn |-> [built |-> TRUE, header |-> header, rows |-> rows,
                            units |-> units, streams |-> streams,
                            connections |-> r.connections,
                            unit_classes |->
                                DictFromKeys(DictKeys(units), DEFAULT_UNIT_CLASS),
                            unit_values |-> DictFromKeys(DictKeys(units), <<>>),
                            stream_values |->
                                DictFromKeys(DictKeys(streams), <<>>)]]
        Connect(units, streams) ==
            Built(units, streams,
                  BuildConnections(header, rows, units, streams))
    IN Connect(BuildUnits(header), BuildStreams(rows))

Construct(inp) ==
    IF inp.table = <<>>
    THEN \* next(reader) on an empty file, input_data[0] on an empty list
         Raised(IF inp.kind = "data" THEN "IndexError" ELSE "StopIteration",
                "header")
    ELSE LET header == inp.table[1]
             rows   == Tail(inp.table)
         IN IF Len(rows) = 0
            THEN \* raise DataLoadError(datafile.name, "Empty file")
                 IF inp.kind = "data" THEN Raised("UnboundLocalError", "datafile")
                 ELSE IF ~inp.named THEN Raised("AttributeError", "name")
                 ELSE Raised("DataLoadError", "Empty file")
            ELSE BuildAll(header, rows)

\* as_table leaving out the blank rows, as the builders do
AsTableNoBlankRows(c) == <<c.header>> \o SelectSeq(c.rows, LAMBDA r : r # <<>>)

\* Connectivity.as_table
AsTable(c) == <<c.header>> \o c.rows

(***************************************************************************)
(* CSV.write.  A field is str(cell), except that the csv module writes     *)
(* None as the empty field.  The characters of the model need no quoting.  *)
(***************************************************************************)
FloatChars(tenths) ==
    LET a == IF tenths < 0 THEN -tenths ELSE tenths
    IN (IF tenths < 0 THEN <<"-">> ELSE <<>>)
       \o NatChars(a \div 10) \o <<".">> \o NatChars(a % 10)

CsvField(c) ==
    IF c.t = "str" THEN c.s
    ELSE IF c.t = "int" THEN IntChars(c.i)
    ELSE IF c.t = "float" THEN (IF c.s = <<>> THEN FloatChars(c.i) ELSE c.s)
    ELSE <<>>

CsvRow(row) == [j \in 1..Len(row) |-> CsvField(row[j])]

CSVWrite(c) ==
    LET table == AsTable(c)
    IN [j \in 1..Len(table) |-> CsvRow(table[j])]

(***************************************************************************)
(* The annotation maps.  An annotation value is kept as the int it was set *)
(* to (a ValueContainer holding it); f-strings show it with str().         *)
(***************************************************************************)
\* a value given to a setter: a plain value v, or the object v of the
\* caller, which has a value attribute
PlainValue(v) == [has_value |-> FALSE, v |-> v]

ObjectValue(o) == [has_value |-> TRUE, v |-> o]

\* ValueContainer(obj): a box whose value attribute is obj
ValueContainer(obj) == PlainValue(obj)

\* v.value of a stored item: of the box, or of the caller's object now
ReadValue(item) == IF item.has_value THEN heap[item.v] ELSE item.v

\* the stream_values / unit_values properties: a copy with each .value read
ValuesView(values) ==
    [n \in 1..Len(values) |->
        [k |-> values[n].k,
         v |-> [m \in 1..Len(values[n].v) |->
                  [k |-> values[n].v[m].k, v |-> ReadValue(values[n].v[m].v)]]]]

\* SetValue on maps that are one shared object: every name gets the value
SetValueShared(vals, name, key, value) ==
    IF ~DictHas(vals, name) THEN [exc |-> "KeyError", vals |-> vals]
    ELSE [exc  |-> "none",
          vals |-> [n \in 1..Len(vals) |->
                      [k |-> vals[n].k, v |-> <<[k |-> key, v |-> value]>>]]]

\* SetValue that boxes what every value is worth at the time of the call
SetValueCaptured(vals, name, key, value) ==
    IF ~DictHas(vals, name) THEN [exc |-> "KeyError", vals |-> vals]
    ELSE [exc  |-> "none",
          vals |-> DictSet(vals, name,
                           DictSet(DictGet(vals, name), key,
                                   ValueContainer(ReadValue(value))))]

\* SetValue without the test of the name: any name gets the value
SetValueAnyName(vals, name, key, value) ==
    [exc  |-> "none",
     vals |-> DictSet(vals, name, <<[k |-> key, v |-> value]>>)]

\* set_stream_value / set_unit_value on the map vals: [exc, vals]
SetValue(vals, name, key, value) ==
    IF ~DictHas(vals, name) THEN [exc |-> "KeyError", vals |-> vals]
    ELSE [exc  |-> "none",
          vals |-> DictSet(vals, name,
                           DictSet(DictGet(vals, name), key,
                                   IF value.has_value THEN value
                                   ELSE ValueContainer(value.v)))]

\* set_stream_values_map / set_unit_values_map: the items of the map are
\* set in order until one raises.  items: a sequence of [name, key, value]
RECURSIVE SetValuesMap(_, _)
SetValuesMap(vals, items) ==
    IF items = <<>> THEN [exc |-> "none", vals |-> vals]
    ELSE LET Rest(r) == IF r.exc # "none" THEN r
                        ELSE SetValuesMap(r.vals, Tail(items))
         IN Rest(SetValue(vals, items[1].name, items[1].key, items[1].value))

\* set_unit_class on the units map: the unit gets the class as abbreviation
SetUnitClassOfUnits(c, unit_name, class_name) ==
    [c EXCEPT !.units = DictSet(c.units, unit_name, class_name)]

\* set_unit_class: the Connectivity after the call, which always returns
SetUnitClass(c, unit_name, class_name) ==
    [c EXCEPT !.unit_classes = DictSet(c.unit_classes, unit_name, class_name)]

\* get_unit_class: [exc, cls]
GetUnitClass(c, name) ==
    IF DictHas(c.unit_classes, name)
    THEN [exc |-> "none", cls |-> DictGet(c.unit_classes, name)]
    ELSE [exc |-> "KeyError", cls |-> ""]

\* "sep".join(f"{k}<eq>{v}" for k, v in data.items())
RECURSIVE JoinItems(_, _, _)
JoinItems(data, eq, sep) ==
    IF data = <<>> THEN ""
    ELSE LET item == data[1].k \o eq \o ToString(data[1].v)
         IN IF Len(data) = 1 THEN item
            ELSE item \o sep \o JoinItems(Tail(data), eq, sep)

(***************************************************************************)
(* Formatter: options and direction.  A keyword argument is a cell:        *)
(* NoneCell when absent or None, else the value given.                     *)
(***************************************************************************)
Lower(c) ==
    IF c = "L" THEN "l" ELSE IF c = "R" THEN "r"
    ELSE IF c = "T" THEN "t" ELSE IF c = "D" THEN "d" ELSE c

LowerAll(cs) == [j \in 1..Len(cs) |-> Lower(cs[j])]

\* Formatter._parse_direction that takes every unknown direction as "LR"
ParseDirectionLenient(d) ==
    IF d.t = "str" /\ LowerAll(d.s) = <<"t", "d">>
    THEN [exc |-> "none", dir |-> "DOWN"]
    ELSE [exc |-> "none", dir |-> "RIGHT"]

\* Formatter._parse_direction: [exc, dir]
ParseDirection(d) ==
    IF d.t # "str" THEN [exc |-> "ValueError", dir |-> ""]
    ELSE IF LowerAll(d.s) = <<"l", "r">> THEN [exc |-> "none", dir |-> "RIGHT"]
    ELSE IF LowerAll(d.s) = <<"t", "d">> THEN [exc |-> "none", dir |-> "DOWN"]
    ELSE [exc |-> "ValueError", dir |-> ""]

\* truth value of an option
Truthy(c) == (c.t = "int" /\ c.i # 0) \/ (c.t = "str" /\ c.s # <<>>)

True == IntCell(1)

False == IntCell(0)

DefaultDirection == StrCell(<<"L", "R">>)

DefaultIndent == StrCell(<<" ", " ", " ", " ">>)

\* Mermaid.defaults and D2.defaults as the module defines them
MermaidDefaults ==
    <<[k |-> "direction", v |-> DefaultDirection],
      [k |-> "stream_labels", v |-> False],
      [k |-> "stream_values", v |-> False],
      [k |-> "unit_values", v |-> False],
      [k |-> "unit_class", v |-> False],
      [k |-> "indent", v |-> DefaultIndent]>>

D2Defaults == SubSeq(MermaidDefaults, 1, 5)

StandardDefaults == [mermaid |-> MermaidDefaults, d2 |-> D2Defaults]

\* _use_defaults that takes the default for every falsy value
RECURSIVE UseDefaultsFalsyFrom(_, _, _)
UseDefaultsFalsyFrom(dflt, kwargs, j) ==
    IF j > Len(dflt) THEN kwargs
    ELSE UseDefaultsFalsyFrom(
             dflt,
             IF ~DictHas(kwargs, dflt[j].k) \/ ~Truthy(DictGet(kwargs, dflt[j].k))
             THEN DictSet(kwargs, dflt[j].k, dflt[j].v) ELSE kwargs,
             j + 1)

UseDefaultsFalsy(dflt, kwargs) == UseDefaultsFalsyFrom(dflt, kwargs, 1)

\* Formatter._use_defaults: kwargs after the loop over cls.defaults.items()
RECURSIVE UseDefaultsFrom(_, _, _)
UseDefaultsFrom(dflt, kwargs, j) ==
    IF j > Len(dflt) THEN kwargs
    ELSE UseDefaultsFrom(
             dflt,
             IF ~DictHas(kwargs, dflt[j].k) \/ DictGet(kwargs, dflt[j].k) = NoneCell
             THEN DictSet(kwargs, dflt[j].k, dflt[j].v) ELSE kwargs,
             j + 1)

UseDefaults(dflt, kwargs) == UseDefaultsFrom(dflt, kwargs, 1)

NoFormatter ==
    [made |-> FALSE, kind |-> "", indent |-> "", stream_labels |-> FALSE,
     stream_values |-> FALSE, unit_values |-> FALSE, unit_class |-> FALSE,
     direction |-> "", streams_with_values |-> {}]

\* CSV(conn, **kwargs), Mermaid(conn, **kwargs) and D2(conn, **kwargs) with
\* the class defaults dflt: [exc, fmt].  CSV has no __init__ of its own:
\* Formatter.__init__ keeps the Connectivity and looks at no keyword
FormatterInit(kind, dflt, kwargs) ==
    IF kind = "csv"
    THEN [exc |-> "none", fmt |-> [NoFormatter EXCEPT !.made = TRUE, !.kind = "csv"]]
    ELSE LET Made(kw, d) ==
                 IF d.exc # "none" THEN [exc |-> d.exc, fmt |-> NoFormatter]
                 ELSE [exc |-> "none",
                       fmt |-> [made          |-> TRUE,
                                kind          |-> kind,
                                indent        |-> IF kind = "mermaid"
                                                  THEN Text(DictGet(kw, "indent").s)
                                                  ELSE "",
                                stream_labels |-> Truthy(DictGet(kw, "stream_labels")),
                                stream_values |-> Truthy(DictGet(kw, "stream_values")),
                                unit_values   |-> Truthy(DictGet(kw, "unit_values")),
                                unit_class    |-> Truthy(DictGet(kw, "unit_class")),
                                direction     |-> d.dir,
                                streams_with_values |-> {}]]
             With(kw) == Made(kw, ParseDirection(DictGet(kw, "direction")))
         IN With(UseDefaults(dflt[kind], kwargs))

\* the keyword arguments direction=..., stream_labels=..., stream_values=...,
\* unit_values=..., unit_class=... as a dict
KwItems(kw) ==
    <<[k |-> "direction", v |-> kw.direction],
      [k |-> "stream_labels", v |-> kw.stream_labels],
      [k |-> "stream_values", v |-> kw.stream_values],
      [k |-> "unit_values", v |-> kw.unit_values],
      [k |-> "unit_class", v |-> kw.unit_class]>>

\* Mermaid.__init__ and D2.__init__ with the defaults of the module and the
\* five keywords given: [exc, fmt]
NewFormatter(kind, kw) == FormatterInit(kind, StandardDefaults, KwItems(kw))

(***************************************************************************)
(* Mermaid.                                                                *)
(***************************************************************************)
Quote == "\""

\* Mermaid._quote_name
QuoteName(name) == Quote \o Text(name.s) \o Quote

EndsWith(cs, suffix) ==
    /\ Len(cs) >= Len(suffix)
    /\ SubSeq(cs, Len(cs) - Len(suffix) + 1, Len(cs)) = suffix

\* Mermaid._clean_stream_label
CleanStreamLabel(label) ==
    LET Spaced(cut) ==
            Text([j \in 1..Len(cut) |-> IF cut[j] = "_" THEN " " ELSE cut[j]])
    IN Spaced(IF EndsWith(label, <<"_", "o", "u", "t", "l", "e", "t">>)
              THEN SubSeq(label, 1, Len(label) - 7)
              ELSE IF EndsWith(label, <<"_", "f", "e", "e", "d">>)
              THEN SubSeq(label, 1, Len(label) - 5)
              ELSE label)

\* stream_name_map = {v: k for k, v in streams.items()}
RECURSIVE ReverseMap(_)
ReverseMap(d) ==
    IF d = <<>> THEN <<>>
    ELSE DictSet(ReverseMap(SubSeq(d, 1, Len(d) - 1)), d[Len(d)].v, d[Len(d)].k)

\* one pass of the loop of Mermaid._get_connections: the lines appended
\* and whether the stream is added to show_streams
MermaidEdges(fmt, stream_abbr, stream_name, values) ==
    LET src == values[1]
        tgt == values[2]
        sv_name == stream_abbr \o "_V"
        Edges(ls, sh) == [lines |-> ls, show |-> sh]
    IN IF src # None /\ tgt # None
       THEN IF fmt.stream_values
            THEN IF sv_name \in fmt.streams_with_values
                 THEN Edges(<<src[1] \o " --- " \o sv_name,
                              sv_name \o " --> " \o tgt[1]>>, FALSE)
                 ELSE Edges(<<src[1] \o " --> " \o tgt[1]>>, FALSE)
            ELSE IF fmt.stream_labels
            THEN Edges(<<src[1] \o " -- " \o CleanStreamLabel(stream_name.s)
                         \o " -->" \o tgt[1]>>, FALSE)
            ELSE Edges(<<src[1] \o " --> " \o tgt[1]>>, FALSE)
       ELSE IF src # None
       THEN Edges(<<src[1] \o " --> " \o stream_abbr>>, TRUE)
       ELSE IF tgt # None
       THEN Edges(<<stream_abbr \o " --> " \o tgt[1]>>, TRUE)
       ELSE Edges(<<>>, FALSE)

\* Mermaid._get_connections: [connections, show_streams]
RECURSIVE GetConnectionsFrom(_, _, _, _)
GetConnectionsFrom(c, fmt, names, j) ==
    IF j > Len(c.connections)
    THEN [connections |-> <<>>, show_streams |-> {}]
    ELSE LET abbr == c.connections[j].k
             Joined(e, rest) ==
                 [connections  |-> e.lines \o rest.connections,
                  show_streams |-> IF e.show THEN {abbr} \cup rest.show_streams
                                   ELSE rest.show_streams]
         IN Joined(MermaidEdges(fmt, abbr, DictGet(names, abbr),
                                c.connections[j].v),
                   GetConnectionsFrom(c, fmt, names, j + 1))

GetConnections(c, fmt) == GetConnectionsFrom(c, fmt, ReverseMap(c.streams), 1)

\* Mermaid._format_stream_values
FormatStreamValues(data) == JoinItems(data, " = ", "\n")

\* the stream value nodes written by _body: [lines, added]
RECURSIVE StreamValueNodes(_, _, _)
StreamValueNodes(c, fmt, j) ==
    LET sv == ValuesView(c.stream_values)
        Node(name, sv_name, body, rest) ==
            [lines |-> <<fmt.indent \o sv_name \o "(" \o Quote
                         \o (IF fmt.stream_labels
                             THEN Text(name.s) \o "\n" \o body ELSE body)
                         \o Quote \o ")">> \o rest.lines,
             added |-> {sv_name} \cup rest.added]
    IN IF j > Len(sv) THEN [lines |-> <<>>, added |-> {}]
       ELSE IF sv[j].v = <<>> THEN StreamValueNodes(c, fmt, j + 1)
       ELSE Node(sv[j].k, DictGet(c.streams, sv[j].k) \o "_V",
                 FormatStreamValues(sv[j].v), StreamValueNodes(c, fmt, j + 1))

\* ",".join(...) of a set, taken in the order given
RECURSIVE JoinComma(_)
JoinComma(order) ==
    IF order = <<>> THEN ""
    ELSE IF Len(order) = 1 THEN order[1]
    ELSE order[1] \o "," \o JoinComma(Tail(order))

\* the orders in which a set can be iterated
Orders(S) == {o \in [1..Cardinality(S) -> S] : {o[j] : j \in DOMAIN o} = S}

\* Mermaid._get_mermaid_units, from unit j: [exc, lines]
RECURSIVE MermaidUnits(_, _, _)
MermaidUnits(c, fmt, j) ==
    IF j > Len(c.units) THEN [exc |-> "none", lines |-> <<>>]
    ELSE LET name  == c.units[j].k
             abbr  == c.units[j].v
             qname == QuoteName(name)
             uv    == ValuesView(c.unit_values)
         IN IF fmt.unit_class /\ ~DictHas(c.unit_classes, name)
            THEN [exc |-> "KeyError", lines |-> <<>>]
            ELSE IF fmt.unit_values /\ ~DictHas(uv, name)
            THEN [exc |-> "KeyError", lines |-> <<>>]
            ELSE LET Shown(d1) ==
                         IF fmt.unit_values /\ DictGet(uv, name) # <<>>
                         THEN d1 \o "\n" \o JoinItems(DictGet(uv, name), "=", "\n")
                         ELSE d1
                     Unit(shown, rest) ==
                         [exc   |-> rest.exc,
                          lines |-> <<fmt.indent \o abbr \o "[" \o shown \o "]">>
                                    \o rest.lines]
                 IN Unit(Shown(IF fmt.unit_class
                               THEN qname \o "::" \o DictGet(c.unit_classes, name)
                               ELSE qname),
                         MermaidUnits(c, fmt, j + 1))

\* the line of _get_mermaid_streams for one stream
StreamNode(abbr, name) == abbr \o "([" \o QuoteName(name) \o "])"

\* MermaidStreams with a node for every stream, connected or not
MermaidStreamsAll(c, fmt, show_streams, j) ==
    [i \in 1..(Len(c.streams) - j + 1) |->
        fmt.indent \o StreamNode(c.streams[i + j - 1].v, c.streams[i + j - 1].k)]

\* the stream nodes written by _body
RECURSIVE MermaidStreams(_, _, _, _)
MermaidStreams(c, fmt, show_streams, j) ==
    IF j > Len(c.streams) THEN <<>>
    ELSE (IF c.streams[j].v \in show_streams
          THEN <<fmt.indent \o StreamNode(c.streams[j].v, c.streams[j].k)>>
          ELSE <<>>) \o MermaidStreams(c, fmt, show_streams, j + 1)

Indented(fmt, lines) == [j \in 1..Len(lines) |-> fmt.indent \o lines[j]]

\* _streams_with_values after the stream value nodes of _body are written
StreamsWithValuesAfter(c, fmt) ==
    IF fmt.stream_values
    THEN fmt.streams_with_values \cup StreamValueNodes(c, fmt, 1).added
    ELSE fmt.streams_with_values

\* Mermaid._body.  order is the order in which ",".join iterates the set
\* _streams_with_values.  [exc, lines, fmt]: what was written, and the
\* formatter afterwards
MermaidBody(c, fmt, order) ==
    LET mm_dir == IF fmt.direction = "RIGHT" THEN "LR" ELSE "TD"
        Top(nodes) ==
            <<"flowchart " \o mm_dir>>
            \o (IF fmt.stream_values
                THEN <<fmt.indent \o "classDef streamval fill:#fff,stroke:#666,stroke-width:1px,font-size:80%;">>
                     \o nodes.lines
                     \o <<fmt.indent \o "class " \o JoinComma(order)
                          \o " streamval;">>
                ELSE <<>>)
        Body(fmt2, head, conns, units) ==
            IF units.exc # "none"
            THEN [exc |-> units.exc, lines |-> head \o units.lines, fmt |-> fmt2]
            ELSE [exc |-> "none",
                  lines |-> head \o units.lines
                            \o MermaidStreams(c, fmt2, conns.show_streams, 1)
                            \o Indented(fmt2, conns.connections),
                  fmt |-> fmt2]
        After(fmt2) ==
            Body(fmt2, Top(StreamValueNodes(c, fmt, 1)),
                 GetConnections(c, fmt2), MermaidUnits(c, fmt2, 1))
    IN After([fmt EXCEPT !.streams_with_values = StreamsWithValuesAfter(c, fmt)])

(***************************************************************************)
(* D2.                                                                     *)
(***************************************************************************)
STREAM_VALUE_CLASS ==
    "{style: {font-color: '#666'; stroke: '#ccc'; fill: 'white'; border-radius: 8}}"

\* str() of an endpoint of a connections pair
PyStr(x) == IF x = None THEN "None" ELSE x[1]

\* UnitIcon.get_icon: <<>> for None, else the path of the icon
GetIcon(unit_class_name) ==
    LET name == IF unit_class_name = "ScalarFeed" THEN "feed"
                ELSE IF unit_class_name = "ScalarMixer" THEN "mixer"
                ELSE IF unit_class_name = "ScalarProduct" THEN "product"
                ELSE ""
    IN IF name = "" THEN None
       ELSE Some("~/.idaes/icon_shapes/" \o name \o ".svg")

\* D2._format_values and D2._get_unit_values
D2FormatValues(data) == JoinItems(data, " = ", "\\n")

\* the unit declarations of D2.write, from unit j: [exc, lines]
RECURSIVE D2Units(_, _, _)
D2Units(c, fmt, j) ==
    IF j > Len(c.units) THEN [exc |-> "none", lines |-> <<>>]
    ELSE LET unit_name == c.units[j].k
             unit_abbr == c.units[j].v
             uv        == ValuesView(c.unit_values)
         IN IF ~DictHas(c.unit_classes, unit_name)
            THEN [exc |-> "KeyError", lines |-> <<>>]
            ELSE IF fmt.unit_values /\ ~DictHas(uv, unit_name)
            THEN [exc |-> "KeyError", lines |-> <<>>]
            ELSE LET unit_type == DictGet(c.unit_classes, unit_name)
                     Display(unit_str) ==
                         IF fmt.unit_values /\ DictGet(uv, unit_name) # <<>>
                         THEN Quote \o unit_str \o "\\n"
                              \o D2FormatValues(DictGet(uv, unit_name))
                              \o Quote
                         ELSE unit_str
                     Decl(display, image, rest) ==
                         [exc   |-> rest.exc,
                          lines |-> (IF image = None
                                     THEN <<unit_abbr \o ": " \o display>>
                                     ELSE <<unit_abbr \o ": " \o display \o " {",
                                            "  shape: image",
                                            "  icon: " \o image[1],
                                            "}">>) \o rest.lines]
                 IN Decl(Display(IF fmt.unit_class
                                 THEN Text(unit_name.s) \o "::" \o unit_type
                                 ELSE Text(unit_name.s)),
                         GetIcon(unit_type), D2Units(c, fmt, j + 1))

\* the loop over connections of D2.write, from connection j with the
\* counters feed_num and sink_num: [exc, lines]
RECURSIVE D2Connections(_, _, _, _, _, _)
D2Connections(c, fmt, names, j, feed_num, sink_num) ==
    IF j > Len(c.connections) THEN [exc |-> "none", lines |-> <<>>]
    ELSE LET stream_abbr == c.connections[j].k
             conns       == c.connections[j].v
             stream_name == Text(DictGet(names, stream_abbr).s)
             sv          == ValuesView(c.stream_values)
             Joined(ls, rest) == [exc |-> rest.exc, lines |-> ls \o rest.lines]
             Then(ls, f, k) ==
                 Joined(ls, D2Connections(c, fmt, names, j + 1, f, k))
         IN IF conns[1] = None
            THEN Then(<<"f" \o ToString(feed_num) \o ": Feed " \o ToString(feed_num),
                        "f" \o ToString(feed_num) \o " -> " \o PyStr(conns[2])
                        \o (IF fmt.stream_labels THEN ": " \o stream_name ELSE "")>>,
                      feed_num + 1, sink_num)
            ELSE IF conns[2] = None
            THEN Then(<<"s" \o ToString(sink_num) \o ": Sink " \o ToString(sink_num),
                        "f" \o ToString(sink_num) \o " -> " \o PyStr(conns[2])
                        \o (IF fmt.stream_labels
                            THEN ToString(sink_num) \o ": " \o stream_name ELSE "")>>,
                      feed_num, sink_num + 1)
            ELSE IF fmt.stream_labels /\ ~fmt.stream_values
            THEN Then(<<conns[1][1] \o " -> " \o conns[2][1] \o ": " \o stream_name>>,
                      feed_num, sink_num)
            ELSE IF fmt.stream_values
            THEN IF ~DictHas(sv, DictGet(names, stream_abbr))
                 THEN [exc |-> "KeyError", lines |-> <<>>]
                 ELSE LET v == DictGet(sv, DictGet(names, stream_abbr))
                          stream_node == "S_" \o stream_name
                          values_text ==
                              (IF fmt.stream_labels
                               THEN stream_name \o "\\n" ELSE "")
                              \o D2FormatValues(v)
                      IN IF v # <<>>
                         THEN Then(<<stream_node \o ": " \o Quote \o values_text \o Quote,
                                     stream_node \o ".class: stream_value",
                                     conns[1][1] \o " -> " \o stream_node \o " -> "
                                     \o conns[2][1],
                                     "">>, feed_num, sink_num)
                         ELSE IF fmt.stream_labels
                         THEN Then(<<conns[1][1] \o " -> " \o conns[2][1] \o ": "
                                     \o stream_name>>, feed_num, sink_num)
                         ELSE Then(<<conns[1][1] \o " -> " \o conns[2][1]>>,
                                   feed_num, sink_num)
            ELSE Then(<<conns[1][1] \o " -> " \o conns[2][1]>>, feed_num, sink_num)

\* D2.write.  home: the IDAES directory exists (IdaesPaths.icons()).
\* [exc, lines]
D2Write(c, fmt, home) ==
    IF ~home THEN [exc |-> "ValueError", lines |-> <<>>]
    ELSE LET d2_dir == IF fmt.direction = "RIGHT" THEN "right" ELSE "down"
             head   == <<"direction: " \o d2_dir>>
                       \o (IF fmt.stream_values \/ fmt.unit_values
                           THEN <<"classes:{">>
                                \o (IF fmt.stream_values
                                    THEN <<"  stream_value: " \o STREAM_VALUE_CLASS>>
                                    ELSE <<>>)
                                \o <<"}">>
                           ELSE <<>>)
             Written(units, conns) ==
                 IF units.exc # "none"
                 THEN [exc |-> units.exc, lines |-> head \o units.lines]
                 ELSE [exc |-> conns.exc,
                       lines |-> head \o units.lines \o conns.lines]
         IN Written(D2Units(c, fmt, 1),
                    D2Connections(c, fmt, ReverseMap(c.streams), 1, 1, 1))

(***************************************************************************)
(* csv_main of the command-line program.  args = [to, ofile, ext, home]:   *)
(* ofile is "None" (option absent), "-" (the console) or "path"; ext says  *)
(* whether the source name has a dot after its first character; home       *)
(* whether the IDAES directory exists.  The result is [ret, raised,        *)
(* opened, written, console]: the return code (when nothing is raised),    *)
(* the exception that leaves csv_main, whether the output file was opened  *)
(* for writing (created or truncated), and the lines the formatter wrote   *)
(* to the file and to the console.                                         *)
(***************************************************************************)
CliResult(ret, raised, opened, written, console) ==
    [ret |-> ret, raised |-> raised, opened |-> opened, written |-> written,
     console |-> console]

\* infer_output_file: the exception it raises, or "none"
InferOutputFile(to, ext) ==
    IF to = "html" THEN "KeyError"
    ELSE IF ~ext THEN "TypeError"
    ELSE "none"

\* the rows of CSV.write as lines of text
CsvLines(rows) ==
    [j \in 1..Len(rows) |->
        JoinComma([k \in 1..Len(rows[j]) |-> Text(rows[j][k])])]

\* get_formatter(conn, to, options).write(...) with the options kw:
\* [exc, opens, lines]; opens: _get_output_stream is reached
GetFormatterWrite(c, to, home, kw) ==
    LET D2Out(w) == [exc |-> w.exc, opens |-> home, lines |-> w.lines]
        MermaidOut(mmd) == [exc |-> mmd.exc, opens |-> TRUE, lines |-> mmd.lines]
        HtmlOut(mmd) ==
            [exc |-> mmd.exc, opens |-> TRUE,
             lines |-> <<"<!DOCTYPE html>", "<html>", "<head>",
                         "<script src='https://cdn.jsdelivr.net/npm/mermaid@10/dist/mermaid.min.js'></script>",
                         "</head>", "<body>", "<div class='mermaid'>">>
                       \o (IF mmd.exc = "none"
                           THEN mmd.lines \o <<"", "</div>", "</body>", "</html>">>
                           ELSE <<>>)]
        With(fmt) ==
            IF to = "csv"
            THEN [exc |-> "none", opens |-> TRUE, lines |-> CsvLines(CSVWrite(c))]
            ELSE IF to = "d2" THEN D2Out(D2Write(c, fmt, home))
            ELSE IF to = "mermaid" THEN MermaidOut(MermaidBody(c, fmt, <<>>))
            ELSE HtmlOut(MermaidBody(c, fmt, <<>>))
    IN With(NewFormatter(IF to = "d2" THEN "d2" ELSE "mermaid", kw).fmt)

\* get_formatter(conn, to).write(...) with no options
FormatterWrite(c, to, home) ==
    GetFormatterWrite(c, to, home,
                      [direction |-> NoneCell, stream_labels |-> NoneCell,
                       stream_values |-> NoneCell, unit_values |-> NoneCell,
                       unit_class |-> NoneCell])

CsvMain(inp, args) ==
    LET inferred == IF args.ofile = "None"
                    THEN InferOutputFile(args.to, args.ext) ELSE "none"
        toFile   == args.ofile # "-"
        Wrote(w) ==
            CliResult(IF w.exc = "none" THEN 0 ELSE -1, w.exc,
                      toFile /\ w.opens,
                      IF toFile THEN w.lines ELSE <<>>,
                      IF toFile THEN <<>> ELSE w.lines)
        Loaded(built) ==
            IF built.exc = "DataLoadError"
            THEN CliResult(1, "none", FALSE, <<>>, <<>>)
            ELSE IF built.exc # "none"
            THEN CliResult(-1, built.exc, FALSE, <<>>, <<>>)
            ELSE Wrote(FormatterWrite(built.conn, args.to, args.home))
    IN IF inferred # "none"
       THEN CliResult(-1, inferred, FALSE, <<>>, <<>>)
       ELSE Loaded(Construct(inp))

(***************************************************************************)
(* The inputs of the model.                                                *)
(***************************************************************************)
Arcs == StrCell(<<"A", "r", "c", "s">>)

U(k) == StrCell(<<"U">> \o NatChars(k))

S1 == StrCell(<<"s", "1">>)

S2 == StrCell(<<"s", "2">>)

StreamNames == {S1, S2}

Str0 == StrCell(<<"0">>)

Str1 == StrCell(<<"1">>)

StrMinus1 == StrCell(<<"-", "1">>)

Str2 == StrCell(<<"2">>)

StrInf == StrCell(<<"i", "n", "f">>)

\* cells that normalize to their own value -1, 0, 1
CoreCells(kind) ==
    IF kind = "data" THEN {IntCell(-1), IntCell(0), IntCell(1)}
    ELSE {StrMinus1, Str0, Str1}

StrOddCells ==
    {StrCell(<<>>), StrCell(<<" ">>), StrCell(<<"1", ".", "0">>),
     StrCell(<<"1", ".", "5">>), StrCell(<<"-", "0", ".", "5">>),
     StrCell(<<" ", "1", " ">>), Str2, StrCell(<<"-", "2">>),
     StrCell(<<"a", "b", "c">>), StrInf, StrCell(<<"n", "a", "n">>)}

OddCells(kind) ==
    IF kind = "data"
    THEN StrOddCells
         \cup {Str1, IntCell(2), IntCell(-2), FloatCell(10), FloatCell(15),
               FloatCell(-5), FloatCell(25), InfCell, NanCell, NoneCell}
    ELSE StrOddCells

AllCells(kind) == CoreCells(kind) \cup OddCells(kind)

\* cells that may stand beside another odd cell
KeyCells(kind) == CoreCells(kind) \cup {Str2, StrInf}

\* cells beyond the last header column
ExcessCells(kind) == {CHOOSE c \in CoreCells(kind) : ConnValue(c).v = 0, Str2}

\* the connection cells of a row of n cells
CellSeqs(kind, n) ==
    {cs \in [1..n -> AllCells(kind)] :
        \/ Cardinality({j \in 1..n : cs[j] \notin CoreCells(kind)}) <= 1
        \/ \A j \in 1..n : cs[j] \in KeyCells(kind)}

ExcessSeqs(kind) ==
    UNION {[1..m -> ExcessCells(kind)] : m \in 0..MaxExcess}

\* the rows tried against a header of n unit columns: short, exact and long
RichRows(kind, n) ==
    {<<name>> \o cs : name \in StreamNames,
                      cs \in UNION {CellSeqs(kind, l) : l \in 0..(n - 1)}}
    \cup {<<name>> \o cs \o ex : name \in StreamNames, cs \in CellSeqs(kind, n),
                                 ex \in ExcessSeqs(kind)}

\* a valid row: an outlet of the first unit and an inlet of the others
ValidRow(kind, n) ==
    <<S1>> \o [j \in 1..n |->
                 CHOOSE c \in CoreCells(kind) :
                     ConnValue(c).v = (IF j = 1 THEN -1 ELSE 1)]

\* the rows around the row tried: the empty row and the valid row
ContextRows(kind, n) == {<<>>, ValidRow(kind, n)}

Headers ==
    {<<Arcs>>, <<Arcs, U(1)>>, <<Arcs, U(1), U(2)>>, <<Arcs, U(1), U(1)>>}

\* a table of m data rows under header h: row p is r, the others are ctx
TableOf(h, m, p, r, ctx) == <<h>> \o [j \in 1..m |-> IF j = p THEN r ELSE ctx[j]]

\* a table of WideCols unit columns and one stream between the last two
WideTable ==
    <<<<Arcs>> \o [k \in 1..WideCols |-> U(k)],
      <<S1>> \o [k \in 1..WideCols |->
                   IF k = WideCols - 1 THEN IntCell(-1)
                   ELSE IF k = WideCols THEN IntCell(1) ELSE IntCell(0)]>>

\* the sources of a table: input_data, input_file as a path, input_file as
\* an open stream with or without a name
Sources ==
    {[kind |-> "data", named |-> FALSE], [kind |-> "path", named |-> TRUE],
     [kind |-> "stream", named |-> TRUE], [kind |-> "stream", named |-> FALSE]}

\* the cells a source can hold: csv.reader yields str only
CellKind(src) == IF src.kind = "data" THEN "data" ELSE "file"

\* the data rows tried with a source
RowsOf(src) == IF src.kind = "stream" THEN 1 ELSE MaxRows

Input(src, table) == [kind |-> src.kind, named |-> src.named, table |-> table]

\* the inputs: the empty table, the wide table, and under each header up
\* to MaxRows rows of which at most one is not a context row
IsInput(inp) ==
    \E src \in Sources :
        \/ inp = Input(src, <<>>)
        \/ src.kind = "data" /\ inp = Input(src, WideTable)
        \/ \E h \in Headers, m \in 0..RowsOf(src) :
              \E ctx \in [1..m -> ContextRows(CellKind(src), Len(h) - 1)] :
                 \/ inp = Input(src, TableOf(h, m, 0, <<>>, ctx))
                 \/ \E p \in 1..m, r \in RichRows(CellKind(src), Len(h) - 1) :
                       inp = Input(src, TableOf(h, m, p, r, ctx))

(***************************************************************************)
(* The state machine: a program that constructs a Connectivity from an     *)
(* input and then uses it, or runs csv_main on a source file.              *)
(***************************************************************************)
Result(op, e, w) == [op |-> op, exc |-> e, why |-> w]

\* the objects of the caller, each with the value 1
Objects == {1}

NoObjects == [o \in Objects |-> 1]

\* no write to a file or a stream yet
NoOut == [target |-> "none", returned |-> <<>>, written |-> <<>>,
          closed |-> FALSE]

\* the caller has passed no value
NoPassed == [stream |-> <<>>, unit |-> <<>>, kwargs |-> <<>>]

\* no method runs step by step
NoProc == [pc |-> "none"]

\* no second Connectivity, and no call on it
NoTwin == [conn |-> NoConn, exc |-> "none", text |-> <<>>]

NoCli == [ran |-> FALSE,
          args |-> [to |-> "", ofile |-> "", ext |-> FALSE, home |-> FALSE],
          result |-> CliResult(0, "none", FALSE, <<>>, <<>>)]

Init ==
    /\ IsInput(input)
    /\ conn = NoConn
    /\ res = Result("start", "none", "")
    /\ csvOut = <<>>
    /\ text = <<>>
    /\ fmtr = NoFormatter
    /\ cli = NoCli
    /\ heap = NoObjects
    /\ out = NoOut
    /\ passed = NoPassed
    /\ defaults = StandardDefaults
    /\ proc = NoProc
    /\ twin = NoTwin

\* conn = Connectivity(input_file=...) or Connectivity(input_data=...)
DoConstruct ==
    /\ res.op = "start"
    /\ \E r \in {Construct(input)} :
          /\ conn' = r.conn
          /\ res' = Result("Connectivity", r.exc, r.why)
    /\ UNCHANGED <<input, csvOut, text, fmtr, cli, heap, out, passed, defaults, proc, twin>>

\* CSV(conn).write(None)
DoCsvWrite ==
    /\ conn.built
    /\ csvOut' = CSVWrite(conn)
    /\ res' = Result("CSV.write", "none", "")
    /\ text' = <<>>
    /\ UNCHANGED <<input, conn, fmtr, cli, heap, out, passed, defaults, proc, twin>>

CliArgs ==
    [to : {"csv", "d2", "html", "mermaid"}, ofile : {"None", "-", "path"},
     ext : BOOLEAN, home : BOOLEAN]

\* csv_main(args) in a fresh process, on the source file of the input
DoCsvMain ==
    /\ res.op = "start"
    /\ input.kind = "path"
    /\ \E args \in CliArgs :
          /\ (args.ofile # "None" => args.ext)
          /\ (args.to # "d2" => args.home)
          /\ \E r \in {CsvMain(input, args)} :
                /\ cli' = [ran |-> TRUE, args |-> args, result |-> r]
                /\ res' = Result("csv_main", r.raised, "")
    /\ UNCHANGED <<input, conn, csvOut, text, fmtr, heap, out, passed, defaults, proc, twin>>

Next == DoConstruct \/ DoCsvWrite \/ DoCsvMain

Spec == Init /\ [][Next]_vars

(***************************************************************************)
(* A second program: it builds a Connectivity from a valid table given as  *)
(* input_data, then annotates it, sets unit classes, makes formatters and  *)
(* renders, in any order.                                                  *)
(***************************************************************************)
\* the elements of a sequence
Range(seq) == {seq[j] : j \in 1..Len(seq)}

\* a data row of input_data: a stream name and int cells
DataRow(name, vals) ==
    <<StrCell(name)>> \o [j \in 1..Len(vals) |-> IntCell(vals[j])]

\* one stream between two units
TableInternal ==
    <<<<Arcs, U(1), U(2)>>, DataRow(<<"s", "1">>, <<-1, 1>>)>>

\* a feed, a stream between two units and a product, with names to clean
TableChain ==
    <<<<Arcs, U(1), U(2)>>,
      DataRow(<<"a", "_", "f", "e", "e", "d">>, <<1, 0>>),
      DataRow(<<"m", "_", "1", "_", "o", "u", "t", "l", "e", "t">>, <<-1, 1>>),
      DataRow(<<"b", "_", "o", "u", "t", "l", "e", "t">>, <<0, -1>>)>>

\* products and feeds of one unit, and a stream connected to nothing
TableEnds ==
    <<<<Arcs, U(1)>>,
      DataRow(<<"o", "1">>, <<-1>>), DataRow(<<"f", "1">>, <<1>>),
      DataRow(<<"f", "2">>, <<1>>), DataRow(<<"o", "2">>, <<-1>>),
      DataRow(<<"d">>, <<0>>)>>

\* a unit name and a stream name given twice
TableRepeats ==
    <<<<Arcs, U(1), U(1)>>,
      DataRow(<<"s", "1">>, <<-1, 1>>), DataRow(<<"s", "1">>, <<1, 0>>)>>

UseTables == {TableInternal, TableChain, TableEnds, TableRepeats}

\* a name that is no unit and no stream of any table
Unknown == StrCell(<<"z">>)

\* what the last call was given as a name, kept in res.why
NameGiven(name) == IF name = Unknown THEN "unknown name" ELSE "known name"

\* the names the program annotates: the first keys of a map, and Unknown
FirstKeys(d, n) == [j \in 1..(IF Len(d) < n THEN Len(d) ELSE n) |-> d[j].k]

\* the items {name: {"T": 1}} of a values map over names
MapItems(names) ==
    [j \in 1..Len(names) |->
        [name |-> names[j], key |-> "T", value |-> PlainValue(1)]]

\* the keyword arguments tried with Mermaid(conn, ...) and D2(conn, ...)
Kw(direction, stream_labels, stream_values, unit_values, unit_class) ==
    [direction |-> direction, stream_labels |-> stream_labels,
     stream_values |-> stream_values, unit_values |-> unit_values,
     unit_class |-> unit_class]

KwTried ==
    {Kw(NoneCell, NoneCell, NoneCell, NoneCell, NoneCell),
     Kw(NoneCell, True, False, NoneCell, NoneCell),
     Kw(NoneCell, NoneCell, True, NoneCell, NoneCell),
     Kw(NoneCell, True, True, NoneCell, NoneCell),
     Kw(StrCell(<<"T", "D">>), NoneCell, NoneCell, True, True),
     Kw(StrCell(<<"u", "p">>), NoneCell, NoneCell, NoneCell, NoneCell),
     Kw(IntCell(1), NoneCell, NoneCell, NoneCell, NoneCell)}

UseInit ==
    /\ input \in {Input([kind |-> "data", named |-> FALSE], t) : t \in UseTables}
    /\ conn = NoConn
    /\ res = Result("start", "none", "")
    /\ csvOut = <<>>
    /\ text = <<>>
    /\ fmtr = NoFormatter
    /\ cli = NoCli
    /\ heap = NoObjects
    /\ out = NoOut
    /\ passed = NoPassed
    /\ defaults = StandardDefaults
    /\ proc = NoProc
    /\ twin = NoTwin

\* conn.set_stream_value(name, "T", 1)
DoSetStreamValue ==
    /\ conn.built
    /\ \E name \in Range(FirstKeys(conn.streams, 2)) \cup {Unknown} :
          \E r \in {SetValue(conn.stream_values, name, "T", PlainValue(1))} :
             /\ conn' = [conn EXCEPT !.stream_values = r.vals]
             /\ res' = Result("set_stream_value", r.exc, NameGiven(name))
    /\ csvOut' = <<>>
    /\ text' = <<>>
    /\ UNCHANGED <<input, fmtr, cli, heap, out, passed, defaults, proc, twin>>

\* conn.set_stream_values_map({name: {"T": 1}, ...})
DoSetStreamValuesMap ==
    /\ conn.built
    /\ \E names \in {FirstKeys(conn.streams, 2),
                     FirstKeys(conn.streams, 1) \o <<Unknown>>} :
          \E r \in {SetValuesMap(conn.stream_values, MapItems(names))} :
             /\ conn' = [conn EXCEPT !.stream_values = r.vals]
             /\ res' = Result("set_stream_values_map", r.exc, "")
    /\ csvOut' = <<>>
    /\ text' = <<>>
    /\ UNCHANGED <<input, fmtr, cli, heap, out, passed, defaults, proc, twin>>

\* conn.clear_stream_values()
DoClearStreamValues ==
    /\ conn.built
    /\ conn' = [conn EXCEPT !.stream_values = <<>>]
    /\ res' = Result("clear_stream_values", "none", "")
    /\ csvOut' = <<>>
    /\ text' = <<>>
    /\ UNCHANGED <<input, fmtr, cli, heap, out, passed, defaults, proc, twin>>

\* conn.set_unit_value(name, "T", 1)
DoSetUnitValue ==
    /\ conn.built
    /\ \E name \in Range(FirstKeys(conn.units, 1)) \cup {Unknown} :
          \E r \in {SetValue(conn.unit_values, name, "T", PlainValue(1))} :
             /\ conn' = [conn EXCEPT !.unit_values = r.vals]
             /\ res' = Result("set_unit_value", r.exc, NameGiven(name))
    /\ csvOut' = <<>>
    /\ text' = <<>>
    /\ UNCHANGED <<input, fmtr, cli, heap, out, passed, defaults, proc, twin>>

\* conn.set_unit_values_map({name: {"T": 1}, ...})
DoSetUnitValuesMap ==
    /\ conn.built
    /\ \E names \in {FirstKeys(conn.units, 1),
                     <<Unknown>> \o FirstKeys(conn.units, 1)} :
          \E r \in {SetValuesMap(conn.unit_values, MapItems(names))} :
             /\ conn' = [conn EXCEPT !.unit_values = r.vals]
             /\ res' = Result("set_unit_values_map", r.exc, "")
    /\ csvOut' = <<>>
    /\ text' = <<>>
    /\ UNCHANGED <<input, fmtr, cli, heap, out, passed, defaults, proc, twin>>

\* conn.clear_unit_values()
DoClearUnitValues ==
    /\ conn.built
    /\ conn' = [conn EXCEPT !.unit_values = <<>>]
    /\ res' = Result("clear_unit_values", "none", "")
    /\ csvOut' = <<>>
    /\ text' = <<>>
    /\ UNCHANGED <<input, fmtr, cli, heap, out, passed, defaults, proc, twin>>

\* conn.set_unit_class(name, "ScalarFeed")
DoSetUnitClass ==
    /\ conn.built
    /\ \E name \in Range(FirstKeys(conn.units, 1)) \cup {Unknown} :
          /\ conn' = SetUnitClass(conn, name, "ScalarFeed")
          /\ res' = Result("set_unit_class", "none", NameGiven(name))
    /\ csvOut' = <<>>
    /\ text' = <<>>
    /\ UNCHANGED <<input, fmtr, cli, heap, out, passed, defaults, proc, twin>>

\* conn.get_unit_class(name): text is the class returned
DoGetUnitClass ==
    /\ conn.built
    /\ \E name \in Range(FirstKeys(conn.units, 2)) \cup {Unknown} :
          \E r \in {GetUnitClass(conn, name)} :
             /\ text' = IF r.exc = "none" THEN <<r.cls>> ELSE <<>>
             /\ res' = Result("get_unit_class", r.exc, NameGiven(name))
    /\ csvOut' = <<>>
    /\ UNCHANGED <<input, conn, fmtr, cli, heap, out, passed, defaults, proc, twin>>

\* fmt = Mermaid(conn, **kw) or fmt = D2(conn, **kw): fmt is not assigned
\* when the constructor raises
DoNewFormatter ==
    /\ conn.built
    /\ \E kind \in {"mermaid", "d2"}, kw \in KwTried :
          \E r \in {NewFormatter(kind, kw)} :
             /\ fmtr' = IF r.exc = "none" THEN r.fmt ELSE fmtr
             /\ res' = Result("Formatter", r.exc, "")
    /\ csvOut' = <<>>
    /\ text' = <<>>
    /\ UNCHANGED <<input, conn, cli, heap, out, passed, defaults, proc, twin>>

\* fmt.write(None) of a Mermaid
DoMermaidWrite ==
    /\ conn.built
    /\ fmtr.kind = "mermaid"
    /\ \E order \in Orders(StreamsWithValuesAfter(conn, fmtr)) :
          \E r \in {MermaidBody(conn, fmtr, order)} :
             /\ text' = r.lines
             /\ fmtr' = r.fmt
             /\ res' = Result("Mermaid.write", r.exc, "")
    /\ csvOut' = <<>>
    /\ UNCHANGED <<input, conn, cli, heap, out, passed, defaults, proc, twin>>

\* fmt.write(None) of a D2, with or without the IDAES directory
DoD2Write ==
    /\ conn.built
    /\ fmtr.kind = "d2"
    /\ \E home \in BOOLEAN :
          \E r \in {D2Write(conn, fmtr, home)} :
             /\ text' = r.lines
             /\ res' = Result("D2.write", r.exc, IF home THEN "" ELSE "home")
    /\ csvOut' = <<>>
    /\ UNCHANGED <<input, conn, fmtr, cli, heap, out, passed, defaults, proc, twin>>

UseNext ==
    \/ DoConstruct
    \/ DoCsvWrite
    \/ DoSetStreamValue
    \/ DoSetStreamValuesMap
    \/ DoClearStreamValues
    \/ DoSetUnitValue
    \/ DoSetUnitValuesMap
    \/ DoClearUnitValues
    \/ DoSetUnitClass
    \/ DoGetUnitClass
    \/ DoNewFormatter
    \/ DoMermaidWrite
    \/ DoD2Write

SpecUse == UseInit /\ [][UseNext]_vars

(***************************************************************************)
(* Properties of the matrix parser, of CSV.write and of csv_main.          *)
(***************************************************************************)
\* the connection cells of a table: the cells of its non-empty data rows
\* under the unit columns of the header, as <<row, column>> positions
ConnCells(table) ==
    {p \in (2..Len(table)) \X (2..Len(table[1])) :
        table[p[1]] # <<>> /\ p[2] <= Len(table[p[1]])}

\* every non-empty data row has a cell under every header column
RowsFull(table) ==
    \A j \in 2..Len(table) : table[j] # <<>> => Len(table[j]) >= Len(table[1])

\* position p comes before position q when the rows are read in order
Before(p, q) == p[1] < q[1] \/ (p[1] = q[1] /\ p[2] < q[2])

\* the text of a written field stands for the cell: the same characters
\* for a str, the same number for an int or a float, nothing for None
SameValue(field, c) ==
    IF c.t = "str" THEN field = c.s
    ELSE IF c.t = "int" THEN field = IntChars(c.i)
    ELSE IF c.t = "float" /\ c.s = <<>>
    THEN /\ ParseFloat(field).ok
         /\ ParseFloat(field).neg = (c.i < 0)
         /\ ParseFloat(field).ip = (IF c.i < 0 THEN -c.i ELSE c.i) \div 10
    ELSE TRUE

\* C1: the table CSV.write returns for a Connectivity built from a matrix
\* is that matrix: the header, then every data row in its place (blank rows
\* and cells beyond the header included), each field holding the value of
\* the input cell.
C1_CsvRoundTrip ==
    res.op = "CSV.write" =>
        /\ Len(csvOut) = Len(input.table)
        /\ \A j \in 1..Len(input.table) :
              /\ Len(csvOut[j]) = Len(input.table[j])
              /\ \A k \in 1..Len(input.table[j]) :
                    SameValue(csvOut[j][k], input.table[j][k])

\* a matrix with two data rows, one of them blank, and a cell beyond the
\* header has been written back
C1_Witness ==
    /\ res.op = "CSV.write"
    /\ Len(input.table) = 3
    /\ \E j \in 2..3 : input.table[j] = <<>>
    /\ \E j \in 2..3 : Len(input.table[j]) > Len(input.table[1])

\* the k-th name of the spreadsheet columns A, B, ..., Z, AA, AB, ...
RECURSIVE ColumnName(_)
ColumnName(n) ==
    IF n <= 26 THEN AsciiFromA[n]
    ELSE ColumnName((n - 1) \div 26) \o AsciiFromA[((n - 1) % 26) + 1]

\* the k-th abbreviation of the sequence Unit_B, ..., Unit_Z, Unit_AA, ...
KthUnitAbbr(k) == "Unit_" \o ColumnName(k + 1)

\* the number of non-empty rows among the first j data rows
NonEmptyUpTo(rows, j) == Cardinality({i \in 1..j : rows[i] # <<>>})

\* the k-th abbreviation of the sequence Stream_3, Stream_4, ...
KthStreamAbbr(k) == "Stream_" \o ToString(k + 2)

PairwiseDistinct(seq) ==
    \A i, j \in 1..Len(seq) : i # j => seq[i] # seq[j]

\* C2 as stated: after a successful build the k-th unit column holds the
\* k-th unit abbreviation and the k-th non-empty row the k-th stream
\* abbreviation, whatever the names are, and the unit abbreviations are
\* pairwise distinct.
C2_AsStated ==
    (res.op = "Connectivity" /\ res.exc = "none") =>
        /\ \A k \in 1..(Len(conn.header) - 1) :
              /\ DictHas(conn.units, conn.header[k + 1])
              /\ DictGet(conn.units, conn.header[k + 1]) = KthUnitAbbr(k)
        /\ \A j \in 1..Len(conn.rows) :
              conn.rows[j] # <<>> =>
                  /\ DictHas(conn.streams, conn.rows[j][1])
                  /\ DictGet(conn.streams, conn.rows[j][1])
                       = KthStreamAbbr(NonEmptyUpTo(conn.rows, j))
        /\ PairwiseDistinct(DictValues(conn.units))

\* C2 (amended): after a successful build units has exactly the names of
\* the unit columns as keys and streams exactly the names of the non-empty
\* rows; the k-th unit column holds the k-th unit abbreviation and the k-th
\* non-empty row the k-th stream abbreviation whenever its name is not
\* repeated in a later column, respectively a later row; the unit
\* abbreviations are pairwise distinct, and so are the stream abbreviations.
C2_Abbreviations ==
    (res.op = "Connectivity" /\ res.exc = "none") =>
        /\ {conn.units[n].k : n \in 1..Len(conn.units)}
             = {conn.header[k] : k \in 2..Len(conn.header)}
        /\ {conn.streams[n].k : n \in 1..Len(conn.streams)}
             = {conn.rows[j][1] : j \in {i \in 1..Len(conn.rows) :
                                             conn.rows[i] # <<>>}}
        /\ \A k \in 1..(Len(conn.header) - 1) :
              (\A l \in (k + 2)..Len(conn.header) :
                    conn.header[l] # conn.header[k + 1])
              => DictGet(conn.units, conn.header[k + 1]) = KthUnitAbbr(k)
        /\ \A j \in 1..Len(conn.rows) :
              (/\ conn.rows[j] # <<>>
               /\ \A l \in (j + 1)..Len(conn.rows) :
                     conn.rows[l] # <<>> => conn.rows[l][1] # conn.rows[j][1])
              => DictGet(conn.streams, conn.rows[j][1])
                   = KthStreamAbbr(NonEmptyUpTo(conn.rows, j))
        /\ PairwiseDistinct(DictKeys(conn.units))
        /\ PairwiseDistinct(DictValues(conn.units))
        /\ PairwiseDistinct(DictValues(conn.streams))

\* a matrix of more than 26 unit columns has been built: the abbreviations
\* have passed Unit_Z
C2_Witness ==
    /\ res.op = "Connectivity"
    /\ res.exc = "none"
    /\ Len(conn.header) > 27
    /\ DictGet(conn.units, conn.header[26]) = "Unit_Z"
    /\ DictGet(conn.units, conn.header[27]) = "Unit_AA"

\* the cells C3 says are accepted: a number whose truncation toward zero is
\* -1, 0 or 1, a blank str, or a str that parses as such a number
Accepted(c) ==
    \/ c.t = "int" /\ c.i \in {-1, 0, 1}
    \/ c.t = "float" /\ c.s = <<>> /\ c.i \in -19..19
    \/ /\ c.t = "str"
       /\ \/ Strip(c.s) = <<>>
          \/ /\ ParseFloat(c.s).ok
             /\ ParseFloat(c.s).kind = "fin"
             /\ ParseFloat(c.s).ip \in {0, 1}

\* C3 as stated: when every non-empty row has a cell under every header
\* column, construction succeeds if every connection cell is accepted, and
\* fails with a ValueError otherwise.
C3_AsStated ==
    (res.op = "Connectivity" /\ Len(input.table) >= 2 /\ RowsFull(input.table))
    => IF \A p \in ConnCells(input.table) : Accepted(input.table[p[1]][p[2]])
       THEN res.exc = "none"
       ELSE res.exc = "ValueError"

\* C4 as stated: an input with a header and no data rows is refused with
\* DataLoadError, whatever its source.
C4_AsStated ==
    (res.op = "Connectivity" /\ Len(input.table) = 1)
    => res.exc = "DataLoadError"

\* C5 as stated: when there is a data row and every connection cell that is
\* present is one the check accepts, construction succeeds, whatever the
\* lengths of the rows.
C5_AsStated ==
    (/\ res.op = "Connectivity"
     /\ Len(input.table) >= 2
     /\ \A p \in ConnCells(input.table) :
           CheckedValue(input.table[p[1]][p[2]]).exc = "none")
    => res.exc = "none"

\* the positions of the cell "2": anywhere in the data rows, and in a
\* connection column
CellsWithTwo(table) ==
    UNION {{<<j, k>> : k \in {l \in 1..Len(table[j]) : table[j][l] = Str2}} :
           j \in 2..Len(table)}

ConnCellsWithTwo(table) ==
    {p \in ConnCells(table) : table[p[1]][p[2]] = Str2}

\* the loop of _build_connections reaches position p: the cells before it
\* are present and accepted
Reached(table, p) ==
    /\ \A j \in 2..(p[1] - 1) :
          table[j] # <<>> => Len(table[j]) >= Len(table[1])
    /\ \A q \in ConnCells(table) :
          Before(q, p) => CheckedValue(table[q[1]][q[2]]).exc = "none"

\* C6 as stated: a cell "2" anywhere in the data rows makes construction
\* fail with the value-range ValueError, and csv_main writes nothing.
C6_AsStated ==
    (Len(input.table) >= 2 /\ CellsWithTwo(input.table) # {}) =>
        /\ res.op = "Connectivity"
           => res.exc = "ValueError" /\ res.why = "range"
        /\ cli.ran
           => /\ ~cli.result.opened
              /\ cli.result.written = <<>>
              /\ cli.result.console = <<>>

\* C6 (amended): a cell "2" in a connection column of a data row makes
\* construction fail, with the value-range ValueError when the loop reaches
\* that cell; csv_main on such a file raises, writes no formatter text to
\* the output file or the console, and opens no output file.
C6_TwoRefused ==
    (Len(input.table) >= 2 /\ ConnCellsWithTwo(input.table) # {}) =>
        /\ res.op = "Connectivity"
           => /\ res.exc # "none"
              /\ ~conn.built
              /\ (\E p \in ConnCellsWithTwo(input.table) :
                     Reached(input.table, p))
                 => res.exc = "ValueError" /\ res.why = "range"
        /\ cli.ran
           => /\ cli.result.raised # "none"
              /\ ~cli.result.opened
              /\ cli.result.written = <<>>
              /\ cli.result.console = <<>>
              /\ (/\ \E p \in ConnCellsWithTwo(input.table) :
                        Reached(input.table, p)
                  /\ (cli.args.ofile = "None"
                      => InferOutputFile(cli.args.to, cli.args.ext) = "none"))
                 => cli.result.raised = "ValueError"

\* csv_main has run on a file whose second data row has the cell "2" in a
\* connection column, reached by the loop, with an output path given
C6_Witness ==
    /\ cli.ran
    /\ cli.args.ofile = "path"
    /\ cli.result.raised = "ValueError"
    /\ \E p \in ConnCellsWithTwo(input.table) :
          p[1] = 3 /\ Reached(input.table, p)

(***************************************************************************)
(* Properties of a Connectivity in use, and of the Mermaid and D2 text.    *)
(***************************************************************************)
\* the endpoints a connections value has
Endpoints(pair) == {p \in 1..Len(pair) : pair[p] # None}

\* C7: in every Connectivity built from a matrix, after any sequence of
\* annotation, class and render operations, every connections value is a
\* pair, each entry of which is None or an abbreviation that is a value of
\* units, and every key of connections is a value of streams.
C7_ConnectionsReferToUnitsAndStreams ==
    conn.built =>
        \A j \in 1..Len(conn.connections) :
            /\ conn.connections[j].k \in Range(DictValues(conn.streams))
            /\ Len(conn.connections[j].v) = 2
            /\ \A p \in Endpoints(conn.connections[j].v) :
                  /\ Len(conn.connections[j].v[p]) = 1
                  /\ conn.connections[j].v[p][1] \in Range(DictValues(conn.units))

\* a Connectivity with a stream between two units has been annotated,
\* given a unit class and rendered
C7_Witness ==
    /\ conn.built
    /\ res.op \in {"Mermaid.write", "D2.write"}
    /\ res.exc = "none"
    /\ \E j \in 1..Len(conn.connections) :
          Endpoints(conn.connections[j].v) = {1, 2}
    /\ \E j \in 1..Len(conn.stream_values) : conn.stream_values[j].v # <<>>
    /\ \E j \in 1..Len(conn.unit_classes) :
          conn.unit_classes[j].v # DEFAULT_UNIT_CLASS

\* the position in streams of the stream with an abbreviation
StreamIndexOf(abbr) ==
    (CHOOSE j \in 1..Len(conn.streams) : conn.streams[j].v = abbr)

MermaidReturned == conn.built /\ res.op = "Mermaid.write" /\ res.exc = "none"

\* C8: in the text a Mermaid.write returned, the node declaration
\* <abbr>(["<name>"]) of a stream is present iff the stream has exactly
\* one endpoint; a stream with only a source has the edge
\* <src> --> <abbr>, a stream with only a target the edge <abbr> --> <tgt>.
C8_StreamNodeIffOneEndpoint ==
    MermaidReturned =>
        \A j \in 1..Len(conn.connections) :
            LET abbr == conn.connections[j].k
                pair == conn.connections[j].v
                name == conn.streams[StreamIndexOf(abbr)].k
                node == "    " \o abbr \o "([\"" \o Text(name.s) \o "\"])"
            IN /\ node \in Range(text) <=> Cardinality(Endpoints(pair)) = 1
               /\ Endpoints(pair) = {1}
                  => ("    " \o pair[1][1] \o " --> " \o abbr) \in Range(text)
               /\ Endpoints(pair) = {2}
                  => ("    " \o abbr \o " --> " \o pair[2][1]) \in Range(text)

\* a Mermaid.write has returned the text of a Connectivity with a feed, a
\* product and a stream between two units
C8_Witness ==
    /\ MermaidReturned
    /\ \A e \in {{1}, {2}, {1, 2}} :
          \E j \in 1..Len(conn.connections) :
             Endpoints(conn.connections[j].v) = e

\* the stream has a non-empty annotation
Annotated(name) ==
    /\ DictHas(conn.stream_values, name)
    /\ DictGet(conn.stream_values, name) # <<>>

\* the label of a stream as the spec describes it: a trailing _outlet or
\* _feed removed, then every underscore replaced by a space
CleanedLabel(name) ==
    LET cut == IF EndsWith(name.s, <<"_", "o", "u", "t", "l", "e", "t">>)
               THEN SubSeq(name.s, 1, Len(name.s) - 7)
               ELSE IF EndsWith(name.s, <<"_", "f", "e", "e", "d">>)
               THEN SubSeq(name.s, 1, Len(name.s) - 5)
               ELSE name.s
    IN Text([j \in 1..Len(cut) |-> IF cut[j] = "_" THEN " " ELSE cut[j]])

\* C9 as stated: in the text a Mermaid.write returned, a stream with both
\* endpoints has the two edges through <abbr>_V when stream_values is on
\* and the stream has a non-empty annotation; otherwise the labelled edge
\* when stream_labels is on; otherwise the plain edge.
C9_AsStated ==
    MermaidReturned =>
        \A j \in 1..Len(conn.connections) :
            LET abbr == conn.connections[j].k
                pair == conn.connections[j].v
                name == conn.streams[StreamIndexOf(abbr)].k
            IN Endpoints(pair) = {1, 2} =>
                  IF fmtr.stream_values /\ Annotated(name)
                  THEN /\ ("    " \o pair[1][1] \o " --- " \o abbr \o "_V")
                          \in Range(text)
                       /\ ("    " \o abbr \o "_V --> " \o pair[2][1])
                          \in Range(text)
                  ELSE IF fmtr.stream_labels
                  THEN ("    " \o pair[1][1] \o " -- " \o CleanedLabel(name)
                        \o " -->" \o pair[2][1]) \in Range(text)
                  ELSE ("    " \o pair[1][1] \o " --> " \o pair[2][1])
                       \in Range(text)

D2Returned == conn.built /\ res.op = "D2.write" /\ res.exc = "none"

\* the number of a feed or a sink: one more than the connections before
\* it that have the same endpoints missing
NumberOf(j, isSuch(_)) ==
    1 + Cardinality({i \in 1..(j - 1) : isSuch(conn.connections[i].v)})

IsFeed(pair) == pair[1] = None

IsSink(pair) == pair[1] # None /\ pair[2] = None

\* a line with or without the stream label after it
WithOrWithoutLabel(line, name) == {line, line \o ": " \o Text(name.s)}

\* C10 as stated: in the text a D2.write returned, the i-th stream with no
\* source has the node f<i>: Feed <i> and, when it has a target, an edge
\* from f<i> to the target unit; the j-th stream with a source and no
\* target has the node s<j>: Sink <j> and an edge joining its source unit
\* and s<j>; i and j count from 1 independently.
C10_AsStated ==
    D2Returned =>
        \A j \in 1..Len(conn.connections) :
            LET abbr == conn.connections[j].k
                pair == conn.connections[j].v
                name == conn.streams[StreamIndexOf(abbr)].k
                f    == "f" \o ToString(NumberOf(j, IsFeed))
                s    == "s" \o ToString(NumberOf(j, IsSink))
            IN /\ IsFeed(pair) =>
                    /\ (f \o ": Feed " \o ToString(NumberOf(j, IsFeed)))
                       \in Range(text)
                    /\ pair[2] # None
                       => WithOrWithoutLabel(f \o " -> " \o pair[2][1], name)
                          \cap Range(text) # {}
               /\ IsSink(pair) =>
                    /\ (s \o ": Sink " \o ToString(NumberOf(j, IsSink)))
                       \in Range(text)
                    /\ (WithOrWithoutLabel(pair[1][1] \o " -> " \o s, name)
                        \cup WithOrWithoutLabel(s \o " -> " \o pair[1][1], name)
                        \cup WithOrWithoutLabel(pair[1][1] \o " -- " \o s, name))
                       \cap Range(text) # {}

\* the lines of Mermaid text that render a stream: an edge at its
\* endpoints or, for a stream with no endpoint, the stream on its own
LinesOfStream(abbr, name, pair) ==
    IF Endpoints(pair) = {1, 2}
    THEN {"    " \o pair[1][1] \o " --> " \o pair[2][1],
          "    " \o pair[1][1] \o " --- " \o abbr \o "_V",
          "    " \o pair[1][1] \o " -- " \o CleanedLabel(name) \o " -->"
          \o pair[2][1]}
    ELSE IF Endpoints(pair) = {1}
    THEN {"    " \o pair[1][1] \o " --> " \o abbr}
    ELSE IF Endpoints(pair) = {2}
    THEN {"    " \o abbr \o " --> " \o pair[2][1]}
    ELSE {"    " \o abbr, "    " \o abbr \o " --> " \o abbr,
          "    " \o abbr \o " --- " \o abbr,
          "    " \o abbr \o "([\"" \o Text(name.s) \o "\"])"}

\* C11 as stated: the text a Mermaid.write returned has at least one line
\* for every stream in connections, a stream with no endpoint included.
C11_AsStated ==
    MermaidReturned =>
        \A j \in 1..Len(conn.connections) :
            LinesOfStream(conn.connections[j].k,
                          conn.streams[StreamIndexOf(conn.connections[j].k)].k,
                          conn.connections[j].v) \cap Range(text) # {}

\* set_stream_value(name, "T", 1), respectively set_unit_value, called in
\* the current state returns, and the property then shows 1 under "T"
SetSucceeds(vals, name) ==
    /\ SetValue(vals, name, "T", PlainValue(1)).exc = "none"
    /\ DictGet(DictGet(ValuesView(SetValue(vals, name, "T", PlainValue(1)).vals),
                       name), "T") = 1

\* C12 as stated: after any sequence of set, bulk set and clear calls on a
\* built model, set_stream_value succeeds for every stream of the model and
\* set_unit_value for every unit, and the value is then the one read.
C12_AsStated ==
    conn.built =>
        /\ \A s \in Range(DictKeys(conn.streams)) :
              SetSucceeds(conn.stream_values, s)
        /\ \A u \in Range(DictKeys(conn.units)) :
              SetSucceeds(conn.unit_values, u)

\* the lines of Mermaid or D2 text that show the annotation {"T": 1} of
\* the j-th stream: its value node, with or without the stream's name,
\* and the edges through the value node
StreamAnnotationLines(j) ==
    LET abbr == conn.streams[j].v
        name == Text(conn.streams[j].k.s)
        pair == DictGet(conn.connections, abbr)
    IN {"    " \o abbr \o "_V(\"T = 1\")",
        "    " \o abbr \o "_V(\"" \o name \o "\nT = 1\")",
        "S_" \o name \o ": \"T = 1\"",
        "S_" \o name \o ": \"" \o name \o "\\nT = 1\"",
        "S_" \o name \o ".class: stream_value"}
       \cup (IF Endpoints(pair) = {1, 2}
             THEN {"    " \o pair[1][1] \o " --- " \o abbr \o "_V",
                   "    " \o abbr \o "_V --> " \o pair[2][1],
                   pair[1][1] \o " -> S_" \o name \o " -> " \o pair[2][1]}
             ELSE {})

\* the lines that show the annotation {"T": 1} of the j-th unit, with or
\* without a class
UnitAnnotationLines(j) ==
    LET abbr == conn.units[j].v
        name == Text(conn.units[j].k.s)
    IN UNION {{"    " \o abbr \o "[\"" \o name \o "\"" \o cls \o "\nT=1]",
               abbr \o ": \"" \o name \o cls \o "\\nT = 1\""} :
              cls \in {"", "::" \o DEFAULT_UNIT_CLASS, "::ScalarFeed"}}

\* a formatter that shows annotations has written after both maps were
\* cleared
WroteAfterClear ==
    /\ conn.built
    /\ conn.stream_values = <<>>
    /\ conn.unit_values = <<>>
    /\ res.op \in {"Mermaid.write", "D2.write"}
    /\ res.why # "home"
    /\ fmtr.stream_values \/ fmtr.unit_values

\* C13 as stated: after clear_stream_values() and clear_unit_values(), a
\* write of a Mermaid or D2 formatter with stream_values or unit_values on
\* returns, and its text has no value node, no edge through a value node
\* and no key/value text.
C13_AsStated ==
    WroteAfterClear =>
        /\ res.exc = "none"
        /\ \A j \in 1..Len(conn.streams) :
              StreamAnnotationLines(j) \cap Range(text) = {}
        /\ \A j \in 1..Len(conn.units) :
              UnitAnnotationLines(j) \cap Range(text) = {}

\* the texts write(None) returns for a formatter just constructed with the
\* configuration of fmtr, for the model as it is now
FreshTexts ==
    IF fmtr.kind = "d2" THEN {D2Write(conn, fmtr, TRUE).lines}
    ELSE LET fresh == [fmtr EXCEPT !.streams_with_values = {}]
         IN {MermaidBody(conn, fresh, order).lines :
                order \in Orders(StreamsWithValuesAfter(conn, fresh))}

\* C14 as stated: the text a write(None) returned is the text a formatter
\* just constructed with the same configuration returns for the same model
\* state, whatever writes and annotation changes came before.
C14_AsStated ==
    (MermaidReturned \/ D2Returned) => text \in FreshTexts

\* C15: a set_stream_value or set_unit_value call with a name that is no
\* stream, respectively no unit, of the model raises KeyError and leaves
\* the annotation maps of all streams and units as they were.
C15_UnknownNameRefused ==
    [][(/\ res'.op \in {"set_stream_value", "set_unit_value"}
        /\ res'.why = "unknown name")
       => /\ res'.exc = "KeyError"
          /\ conn'.stream_values = conn.stream_values
          /\ conn'.unit_values = conn.unit_values]_vars

\* set_stream_value with an unknown name was refused on a model that has
\* annotations on a stream and on a unit
C15_Witness ==
    /\ res.op = "set_stream_value"
    /\ res.why = "unknown name"
    /\ res.exc = "KeyError"
    /\ \E j \in 1..Len(conn.stream_values) : conn.stream_values[j].v # <<>>
    /\ \E j \in 1..Len(conn.unit_values) : conn.unit_values[j].v # <<>>

\* a formatter just constructed with the options of fmtr
FreshFormatter(kind) ==
    [fmtr EXCEPT !.made = TRUE, !.kind = kind,
                 !.indent = IF kind = "mermaid" THEN "    " ELSE "",
                 !.direction = IF fmtr.made THEN fmtr.direction ELSE "RIGHT",
                 !.streams_with_values = {}]

\* the lines write(None) gives for the model c, with Mermaid and with D2
RenderedLines(c) ==
    Range(MermaidBody(c, FreshFormatter("mermaid"),
                      CHOOSE order \in
                          Orders(StreamsWithValuesAfter(c, FreshFormatter("mermaid"))) :
                          TRUE).lines)
    \cup Range(D2Write(c, FreshFormatter("d2"), TRUE).lines)

\* the lines that are in one text and not in the other
ChangedLines(before, after) == (before \ after) \cup (after \ before)

\* the Mermaid line that lists the value nodes of the model c
ClassLine(c) ==
    "    class "
    \o JoinComma(CHOOSE order \in
                     Orders(StreamsWithValuesAfter(c, FreshFormatter("mermaid"))) :
                     TRUE)
    \o " streamval;"

\* the lines of Mermaid and D2 text that render the stream, respectively
\* the unit, with a name: its declaration, its annotation and its edges
LinesOfStreamNamed(name) ==
    UNION {LinesOfStream(conn.streams[j].v, conn.streams[j].k,
                         DictGet(conn.connections, conn.streams[j].v))
           \cup StreamAnnotationLines(j)
           \cup (IF Endpoints(DictGet(conn.connections, conn.streams[j].v)) = {1, 2}
                 THEN WithOrWithoutLabel(
                          DictGet(conn.connections, conn.streams[j].v)[1][1]
                          \o " -> "
                          \o DictGet(conn.connections, conn.streams[j].v)[2][1],
                          conn.streams[j].k)
                 ELSE {})
           \cup {""} :
           j \in {i \in 1..Len(conn.streams) : conn.streams[i].k = name}}

LinesOfUnitNamed(name) ==
    UNION {UnitAnnotationLines(j)
           \cup UNION {{"    " \o conn.units[j].v \o "[\"" \o Text(name.s) \o "\""
                        \o cls \o "]",
                        conn.units[j].v \o ": " \o Text(name.s) \o cls,
                        conn.units[j].v \o ": " \o Text(name.s) \o cls \o " {",
                        conn.units[j].v \o ": \"" \o Text(name.s) \o cls
                        \o "\\nT = 1\" {"} :
                       cls \in {"", "::" \o DEFAULT_UNIT_CLASS, "::ScalarFeed"}} :
           j \in {i \in 1..Len(conn.units) : conn.units[i].k = name}}

\* the maps of all names but a are the same in old and new
OthersSame(old, new, a) ==
    /\ Len(new) = Len(old)
    /\ \A j \in 1..Len(old) :
          /\ new[j].k = old[j].k
          /\ old[j].k # a => new[j].v = old[j].v

\* the lines changed by the step belong to own, or list the value nodes
OnlyChanged(own) ==
    ChangedLines(RenderedLines(conn), RenderedLines(conn'))
        \subseteq (own \cup {ClassLine(conn), ClassLine(conn')})

\* C16: a set_stream_value or set_unit_value call on A leaves the
\* annotation map of every other stream and unit as it was, and changes
\* no line of Mermaid or D2 text but those that render A.
C16_AnnotationIsolation ==
    [][/\ res'.op = "set_stream_value" =>
            \E a \in Range(DictKeys(conn.streams)) \cup {Unknown} :
               /\ OthersSame(conn.stream_values, conn'.stream_values, a)
               /\ conn'.unit_values = conn.unit_values
               /\ OnlyChanged(LinesOfStreamNamed(a))
       /\ res'.op = "set_unit_value" =>
            \E a \in Range(DictKeys(conn.units)) \cup {Unknown} :
               /\ OthersSame(conn.unit_values, conn'.unit_values, a)
               /\ conn'.stream_values = conn.stream_values
               /\ OnlyChanged(LinesOfUnitNamed(a))]_vars

\* a stream has been annotated while another stream and a unit had
\* annotations, with a formatter that shows stream and unit values
C16_Witness ==
    /\ res.op = "set_stream_value"
    /\ res.exc = "none"
    /\ Cardinality({j \in 1..Len(conn.stream_values) :
                       conn.stream_values[j].v # <<>>}) >= 2
    /\ \E j \in 1..Len(conn.unit_values) : conn.unit_values[j].v # <<>>
    /\ fmtr.stream_values \/ fmtr.unit_values

(***************************************************************************)
(* A third program: it builds a Connectivity from a table, passes plain    *)
(* values and an object with a value attribute as the annotation "T" of    *)
(* the first stream and of the first unit, assigns to the object's value,  *)
(* and writes with CSV, Mermaid and D2 to None, to a path, to a file the   *)
(* caller opened and to a StringIO of the caller.                          *)
(***************************************************************************)
LiveTables == {TableInternal, TableChain}

\* the values passed as annotations
LiveValues == {PlainValue(1), PlainValue(2)} \cup {ObjectValue(o) : o \in Objects}

\* the values assigned to the value attribute of an object
HeapValues == {1, 2}

KwLive ==
    {Kw(NoneCell, NoneCell, NoneCell, NoneCell, NoneCell),
     Kw(NoneCell, NoneCell, True, True, NoneCell),
     Kw(NoneCell, True, True, True, True)}

\* the output_file arguments of write
Targets == {"None", "path", "file", "StringIO"}

\* Formatter._get_output_stream and Formatter._write_return around the
\* lines a write() produced: what the call returns (<<>> for None, else
\* the text in a tuple), the lines given to the destination, and whether
\* the destination is closed afterwards.  A file opened from a path is
\* not closed by write(): it is closed when the file object is collected
WriteTo(target, lines, collected) ==
    [target   |-> target,
     returned |-> IF target \in {"None", "StringIO"} THEN <<lines>> ELSE <<>>,
     written  |-> IF target = "None" THEN <<>> ELSE lines,
     closed   |-> target = "path" /\ collected]

LiveInit ==
    /\ input \in {Input([kind |-> "data", named |-> FALSE], t) : t \in LiveTables}
    /\ conn = NoConn
    /\ res = Result("start", "none", "")
    /\ csvOut = <<>>
    /\ text = <<>>
    /\ fmtr = NoFormatter
    /\ cli = NoCli
    /\ heap = NoObjects
    /\ out = NoOut
    /\ passed = NoPassed
    /\ defaults = StandardDefaults
    /\ proc = NoProc
    /\ twin = NoTwin

\* conn.set_stream_value(name, "T", value) for the first stream
LiveSetStreamValue ==
    /\ conn.built
    /\ \E value \in LiveValues :
          \E r \in {SetValue(conn.stream_values, conn.streams[1].k, "T", value)} :
             /\ conn' = [conn EXCEPT !.stream_values = r.vals]
             /\ res' = Result("set_stream_value", r.exc, "known name")
             /\ passed' = IF r.exc = "none"
                          THEN [passed EXCEPT !.stream = <<value>>] ELSE passed
    /\ csvOut' = <<>>
    /\ text' = <<>>
    /\ out' = NoOut
    /\ UNCHANGED <<input, fmtr, cli, heap, defaults, proc, twin>>

\* conn.set_unit_value(name, "T", value) for the first unit
LiveSetUnitValue ==
    /\ conn.built
    /\ \E value \in LiveValues :
          \E r \in {SetValue(conn.unit_values, conn.units[1].k, "T", value)} :
             /\ conn' = [conn EXCEPT !.unit_values = r.vals]
             /\ res' = Result("set_unit_value", r.exc, "known name")
             /\ passed' = IF r.exc = "none"
                          THEN [passed EXCEPT !.unit = <<value>>] ELSE passed
    /\ csvOut' = <<>>
    /\ text' = <<>>
    /\ out' = NoOut
    /\ UNCHANGED <<input, fmtr, cli, heap, defaults, proc, twin>>

\* conn.clear_stream_values()
LiveClearStreamValues ==
    /\ conn.built
    /\ conn' = [conn EXCEPT !.stream_values = <<>>]
    /\ res' = Result("clear_stream_values", "none", "")
    /\ passed' = [passed EXCEPT !.stream = <<>>]
    /\ csvOut' = <<>>
    /\ text' = <<>>
    /\ out' = NoOut
    /\ UNCHANGED <<input, fmtr, cli, heap, defaults, proc, twin>>

\* conn.clear_unit_values()
LiveClearUnitValues ==
    /\ conn.built
    /\ conn' = [conn EXCEPT !.unit_values = <<>>]
    /\ res' = Result("clear_unit_values", "none", "")
    /\ passed' = [passed EXCEPT !.unit = <<>>]
    /\ csvOut' = <<>>
    /\ text' = <<>>
    /\ out' = NoOut
    /\ UNCHANGED <<input, fmtr, cli, heap, defaults, proc, twin>>

\* o.value = v, by the caller
LiveAssignValue ==
    /\ conn.built
    /\ \E o \in Objects :
          \E v \in HeapValues \ {heap[o]} :
             heap' = [heap EXCEPT ![o] = v]
    /\ res' = Result("assign value", "none", "")
    /\ csvOut' = <<>>
    /\ text' = <<>>
    /\ out' = NoOut
    /\ UNCHANGED <<input, conn, fmtr, cli, passed, defaults, proc, twin>>

\* fmt = Mermaid(conn, **kw) or fmt = D2(conn, **kw)
LiveNewFormatter ==
    /\ conn.built
    /\ \E kind \in {"mermaid", "d2"}, kw \in KwLive :
          \E r \in {NewFormatter(kind, kw)} :
             /\ fmtr' = IF r.exc = "none" THEN r.fmt ELSE fmtr
             /\ res' = Result("Formatter", r.exc, "")
    /\ csvOut' = <<>>
    /\ text' = <<>>
    /\ out' = NoOut
    /\ UNCHANGED <<input, conn, cli, heap, passed, defaults, proc, twin>>

\* CSV(conn).write(output_file)
LiveCsvWrite ==
    /\ conn.built
    /\ \E target \in Targets, collected \in BOOLEAN :
          \E rows \in {CSVWrite(conn)} :
             /\ csvOut' = rows
             /\ text' = CsvLines(rows)
             /\ out' = WriteTo(target, CsvLines(rows), collected)
    /\ res' = Result("CSV.write", "none", "")
    /\ UNCHANGED <<input, conn, fmtr, cli, heap, passed, defaults, proc, twin>>

\* fmt.write(output_file) of a Mermaid
LiveMermaidWrite ==
    /\ conn.built
    /\ fmtr.kind = "mermaid"
    /\ \E target \in Targets, collected \in BOOLEAN :
          \E order \in Orders(StreamsWithValuesAfter(conn, fmtr)) :
             \E r \in {MermaidBody(conn, fmtr, order)} :
                /\ text' = r.lines
                /\ fmtr' = r.fmt
                /\ res' = Result("Mermaid.write", r.exc, "")
                /\ out' = IF r.exc = "none"
                          THEN WriteTo(target, r.lines, collected)
                          ELSE [WriteTo(target, r.lines, collected)
                                   EXCEPT !.returned = <<>>]
    /\ csvOut' = <<>>
    /\ UNCHANGED <<input, conn, cli, heap, passed, defaults, proc, twin>>

\* fmt.write(output_file) of a D2, with a home directory
LiveD2Write ==
    /\ conn.built
    /\ fmtr.kind = "d2"
    /\ \E target \in Targets, collected \in BOOLEAN :
          \E r \in {D2Write(conn, fmtr, TRUE)} :
             /\ text' = r.lines
             /\ res' = Result("D2.write", r.exc, "")
             /\ out' = IF r.exc = "none"
                       THEN WriteTo(target, r.lines, collected)
                       ELSE [WriteTo(target, r.lines, collected)
                                EXCEPT !.returned = <<>>]
    /\ csvOut' = <<>>
    /\ UNCHANGED <<input, conn, fmtr, cli, heap, passed, defaults, proc, twin>>

LiveNext ==
    \/ DoConstruct
    \/ LiveSetStreamValue
    \/ LiveSetUnitValue
    \/ LiveClearStreamValues
    \/ LiveClearUnitValues
    \/ LiveAssignValue
    \/ LiveNewFormatter
    \/ LiveCsvWrite
    \/ LiveMermaidWrite
    \/ LiveD2Write

SpecLive == LiveInit /\ [][LiveNext]_vars

\* what a read shows for a value the caller passed: the value attribute of
\* an object as it is now, a plain value as it was passed
Expected(arg) ==
    IF arg \in {ObjectValue(o) : o \in Objects} THEN heap[arg.v] ELSE arg.v

\* the lines of Mermaid and D2 text that show v as the "T" of stream j,
\* respectively of unit j
StreamLinesShowing(j, v) ==
    LET abbr == conn.streams[j].v
        name == Text(conn.streams[j].k.s)
    IN {"    " \o abbr \o "_V(\"T = " \o ToString(v) \o "\")",
        "    " \o abbr \o "_V(\"" \o name \o "\nT = " \o ToString(v) \o "\")",
        "S_" \o name \o ": \"T = " \o ToString(v) \o "\"",
        "S_" \o name \o ": \"" \o name \o "\\nT = " \o ToString(v) \o "\""}

UnitLinesShowing(j, v) ==
    LET abbr == conn.units[j].v
        name == Text(conn.units[j].k.s)
    IN UNION {{"    " \o abbr \o "[\"" \o name \o "\"" \o cls \o "\nT="
               \o ToString(v) \o "]",
               abbr \o ": \"" \o name \o cls \o "\\nT = " \o ToString(v) \o "\""} :
              cls \in {"", "::" \o DEFAULT_UNIT_CLASS}}

\* the text shows v, and no other value, in the lines given by Showing
ShowsOnly(Showing(_), v) ==
    /\ Showing(v) \cap Range(text) # {}
    /\ \A w \in HeapValues \ {v} : Showing(w) \cap Range(text) = {}

\* C17: while the caller has passed a value for the first stream or unit
\* and not cleared it, stream_values / unit_values and the text of a
\* Mermaid or D2 write that shows values give the value attribute as it is
\* at the time of the read when an object was passed, and the value as it
\* was passed when it was a plain value.
C17_LiveAndCapturedValues ==
    conn.built =>
      /\ passed.stream # <<>> =>
           /\ DictGet(DictGet(ValuesView(conn.stream_values), conn.streams[1].k), "T")
                 = Expected(passed.stream[1])
           /\ ( /\ res.op \in {"Mermaid.write", "D2.write"}
                /\ res.exc = "none"
                /\ fmtr.stream_values
                /\ \/ res.op = "Mermaid.write"
                   \/ Endpoints(DictGet(conn.connections, conn.streams[1].v)) = {1, 2} )
              => LET Showing(v) == StreamLinesShowing(1, v)
                 IN ShowsOnly(Showing, Expected(passed.stream[1]))
      /\ passed.unit # <<>> =>
           /\ DictGet(DictGet(ValuesView(conn.unit_values), conn.units[1].k), "T")
                 = Expected(passed.unit[1])
           /\ ( /\ res.op \in {"Mermaid.write", "D2.write"}
                /\ res.exc = "none"
                /\ fmtr.unit_values )
              => LET Showing(v) == UnitLinesShowing(1, v)
                 IN ShowsOnly(Showing, Expected(passed.unit[1]))

\* a render after the value of the object passed for the stream was
\* assigned 2, while the unit has the plain value 1
C17_Witness ==
    /\ res.op \in {"Mermaid.write", "D2.write"}
    /\ res.exc = "none"
    /\ fmtr.stream_values
    /\ fmtr.unit_values
    /\ passed.stream \in {<<ObjectValue(o)>> : o \in Objects}
    /\ heap[passed.stream[1].v] = 2
    /\ passed.unit = <<PlainValue(1)>>
    /\ StreamLinesShowing(1, 2) \cap Range(text) # {}
    /\ UnitLinesShowing(1, 1) \cap Range(text) # {}

\* the last operation was a write of a formatter
IsWrite(op) == op \in {"CSV.write", "Mermaid.write", "D2.write"}

\* C18: every operation on a built model leaves units, streams,
\* connections and the result of as_table() as they were, and a CSV,
\* Mermaid or D2 write also leaves the annotation maps and the unit
\* classes as they were.
C18_TopologyNeverChanges ==
    [][conn.built =>
         /\ conn'.built
         /\ conn'.units = conn.units
         /\ conn'.streams = conn.streams
         /\ conn'.connections = conn.connections
         /\ AsTable(conn') = AsTable(conn)
         /\ IsWrite(res'.op) =>
               /\ conn'.stream_values = conn.stream_values
               /\ conn'.unit_values = conn.unit_values
               /\ conn'.unit_classes = conn.unit_classes]_vars

\* a class has been set for a unit of a model that has annotations
C18_Witness ==
    /\ conn.built
    /\ res.op = "set_unit_class"
    /\ res.why = "known name"
    /\ \E j \in 1..Len(conn.unit_classes) : conn.unit_classes[j].v = "ScalarFeed"
    /\ \E j \in 1..Len(conn.stream_values) : conn.stream_values[j].v # <<>>
    /\ \E j \in 1..Len(conn.unit_values) : conn.unit_values[j].v # <<>>

\* C19 as stated: set_unit_class and get_unit_class raise KeyError for a
\* name that is no unit, the names that have a class are the units, and
\* get_unit_class of a unit returns "Component".
C19_AsStated ==
    conn.built =>
      /\ ( /\ res.op \in {"set_unit_class", "get_unit_class"}
           /\ res.why = "unknown name" ) => res.exc = "KeyError"
      /\ Range(DictKeys(conn.unit_classes)) = Range(DictKeys(conn.units))
      /\ ( /\ res.op = "get_unit_class"
           /\ res.why = "known name"
           /\ \A j \in 1..Len(conn.unit_classes) :
                 conn.unit_classes[j].v = DEFAULT_UNIT_CLASS )
         => res.exc = "none" /\ text = <<DEFAULT_UNIT_CLASS>>

\* C20 as stated: write(None) returns the text; write(path) writes the
\* text to the file, closes it and returns None; write(stream) writes the
\* text to the stream, returns None and leaves the stream open, for a file
\* the caller opened and for a StringIO alike.
C20_AsStated ==
    (IsWrite(res.op) /\ res.exc = "none") =>
       /\ out.target = "None" => out.returned = <<text>>
       /\ out.target = "path" =>
             out.written = text /\ out.closed /\ out.returned = <<>>
       /\ out.target \in {"file", "StringIO"} =>
             out.written = text /\ ~out.closed /\ out.returned = <<>>

(***************************************************************************)
(* A fourth program: it builds a Connectivity, assigns to entries of the   *)
(* class attributes Mermaid.defaults and D2.defaults, constructs CSV,      *)
(* Mermaid and D2 formatters with keyword arguments and writes with them.  *)
(***************************************************************************)
\* one keyword argument, and two
Kw1(k, v) == <<[k |-> k, v |-> v]>>

Kw2(k1, v1, k2, v2) == <<[k |-> k1, v |-> v1], [k |-> k2, v |-> v2]>>

\* the flags among the options
Flags == {"stream_labels", "stream_values", "unit_values", "unit_class"}

\* the directions given: valid in three letter cases, a string that is no
\* direction, and an int
DirectionsTried ==
    {StrCell(<<"L", "R">>), StrCell(<<"t", "d">>), StrCell(<<"T", "d">>),
     StrCell(<<"u", "p">>), IntCell(1)}

KwargsTried ==
    {<<>>}
    \cup {Kw1("direction", v) : v \in DirectionsTried \cup {NoneCell}}
    \cup {Kw1(k, v) : k \in Flags, v \in {NoneCell, False, True}}
    \cup {Kw1("indent", v) : v \in {NoneCell, StrCell(<<>>), StrCell(<<" ", " ">>)}}
    \cup {Kw2("stream_labels", v, "direction", StrCell(<<"T", "D">>)) :
             v \in {False, True}}
    \cup {Kw2("stream_values", True, "unit_values", True)}

\* the assignments klass.defaults[k] = v tried
DefaultsTried ==
    {[kind |-> kind, k |-> "stream_labels", v |-> v] :
         kind \in {"mermaid", "d2"}, v \in {False, True}}
    \cup {[kind |-> "mermaid", k |-> "direction", v |-> v] :
             v \in {StrCell(<<"L", "R">>), StrCell(<<"T", "D">>)}}

OptInit ==
    /\ input = Input([kind |-> "data", named |-> FALSE], TableChain)
    /\ conn = NoConn
    /\ res = Result("start", "none", "")
    /\ csvOut = <<>>
    /\ text = <<>>
    /\ fmtr = NoFormatter
    /\ cli = NoCli
    /\ heap = NoObjects
    /\ out = NoOut
    /\ passed = NoPassed
    /\ defaults = StandardDefaults
    /\ proc = NoProc
    /\ twin = NoTwin

\* Mermaid.defaults[k] = v or D2.defaults[k] = v
OptSetDefault ==
    /\ conn.built
    /\ \E d \in DefaultsTried :
          /\ DictGet(defaults[d.kind], d.k) # d.v
          /\ defaults' = [defaults EXCEPT ![d.kind] = DictSet(@, d.k, d.v)]
    /\ res' = Result("defaults", "none", "")
    /\ text' = <<>>
    /\ UNCHANGED <<input, conn, csvOut, fmtr, cli, heap, out, passed, proc, twin>>

\* fmt = CSV(conn, **kwargs), Mermaid(conn, **kwargs) or D2(conn, **kwargs):
\* fmt is not assigned when the constructor raises; res.why is the class
OptNewFormatter ==
    /\ conn.built
    /\ \E kind \in {"csv", "mermaid", "d2"}, kwargs \in KwargsTried :
          \E r \in {FormatterInit(kind, defaults, kwargs)} :
             /\ fmtr' = IF r.exc = "none" THEN r.fmt ELSE fmtr
             /\ res' = Result("Formatter", r.exc, kind)
             /\ passed' = [passed EXCEPT !.kwargs = kwargs]
    /\ text' = <<>>
    /\ UNCHANGED <<input, conn, csvOut, cli, heap, out, defaults, proc, twin>>

\* fmt.write(None)
OptWrite ==
    /\ conn.built
    /\ fmtr.made
    /\ \/ /\ fmtr.kind = "csv"
          /\ text' = CsvLines(CSVWrite(conn))
          /\ res' = Result("CSV.write", "none", "")
          /\ fmtr' = fmtr
       \/ /\ fmtr.kind = "mermaid"
          /\ \E order \in Orders(StreamsWithValuesAfter(conn, fmtr)) :
                \E r \in {MermaidBody(conn, fmtr, order)} :
                   /\ text' = r.lines
                   /\ fmtr' = r.fmt
                   /\ res' = Result("Mermaid.write", r.exc, "")
       \/ /\ fmtr.kind = "d2"
          /\ \E r \in {D2Write(conn, fmtr, TRUE)} :
                /\ text' = r.lines
                /\ res' = Result("D2.write", r.exc, "")
          /\ fmtr' = fmtr
    /\ UNCHANGED <<input, conn, csvOut, cli, heap, out, passed, defaults, proc, twin>>

OptNext == DoConstruct \/ OptSetDefault \/ OptNewFormatter \/ OptWrite

SpecOpt == OptInit /\ [][OptNext]_vars

\* the value an option has after the constructor, as C21 gives it: the
\* class default when the keyword is absent or None, else what was given
Taken(kind, k) ==
    IF ~DictHas(passed.kwargs, k) \/ DictGet(passed.kwargs, k) = NoneCell
    THEN DictGet(defaults[kind], k)
    ELSE DictGet(passed.kwargs, k)

\* C21: a Mermaid or D2 just constructed has, for every option of the
\* class defaults, the class default when the keyword was absent or None
\* and the caller's value otherwise, also when that value is falsy.
C21_DefaultsMerged ==
    (res.op = "Formatter" /\ res.exc = "none" /\ res.why \in {"mermaid", "d2"}) =>
       /\ fmtr.kind = res.why
       /\ fmtr.stream_labels = (Taken(res.why, "stream_labels") = True)
       /\ fmtr.stream_values = (Taken(res.why, "stream_values") = True)
       /\ fmtr.unit_values = (Taken(res.why, "unit_values") = True)
       /\ fmtr.unit_class = (Taken(res.why, "unit_class") = True)
       /\ Taken(res.why, "direction").t = "str"
       /\ fmtr.direction
             = (IF LowerAll(Taken(res.why, "direction").s) = <<"t", "d">>
                THEN "DOWN" ELSE "RIGHT")
       /\ res.why = "mermaid" => fmtr.indent = Text(Taken("mermaid", "indent").s)

\* a Mermaid was given stream_labels=False while the class default is True
C21_Witness ==
    /\ res.op = "Formatter"
    /\ res.exc = "none"
    /\ res.why = "mermaid"
    /\ DictGet(defaults.mermaid, "stream_labels") = True
    /\ DictHas(passed.kwargs, "stream_labels")
    /\ DictGet(passed.kwargs, "stream_labels") = False
    /\ ~fmtr.stream_labels

\* the direction keyword was given and is neither "LR" nor "TD" in any
\* letter case
DirectionGivenBad ==
    /\ DictHas(passed.kwargs, "direction")
    /\ LET d == DictGet(passed.kwargs, "direction")
       IN ~(d.t = "str" /\ LowerAll(d.s) \in {<<"l", "r">>, <<"t", "d">>})

\* C22 as stated: a CSV, Mermaid or D2 constructor given a direction other
\* than "LR" or "TD" raises ValueError.
C22_AsStated ==
    (res.op = "Formatter" /\ DirectionGivenBad) => res.exc = "ValueError"

\* the first line of a Mermaid or D2 text for a direction
DirectionLine(kind, dir) ==
    IF kind = "mermaid"
    THEN (IF dir = "RIGHT" THEN "flowchart LR" ELSE "flowchart TD")
    ELSE (IF dir = "RIGHT" THEN "direction: right" ELSE "direction: down")

\* C22, amended: a Mermaid or D2 constructor given a direction that is not
\* None and is neither "LR" nor "TD" in any letter case raises ValueError,
\* and "lr" / "td" in any letter case give left-to-right / top-down; so
\* every Mermaid and D2 that exists has one of the two directions, and its
\* write returns and declares that direction.
C22_BadDirectionRefused ==
    /\ (res.op = "Formatter" /\ res.why \in {"mermaid", "d2"}) =>
          /\ (DirectionGivenBad /\ DictGet(passed.kwargs, "direction") # NoneCell)
                => res.exc = "ValueError"
          /\ ( /\ DictHas(passed.kwargs, "direction")
               /\ DictGet(passed.kwargs, "direction").t = "str"
               /\ LowerAll(DictGet(passed.kwargs, "direction").s) = <<"l", "r">> )
                => (res.exc = "none" /\ fmtr.direction = "RIGHT")
          /\ ( /\ DictHas(passed.kwargs, "direction")
               /\ DictGet(passed.kwargs, "direction").t = "str"
               /\ LowerAll(DictGet(passed.kwargs, "direction").s) = <<"t", "d">> )
                => (res.exc = "none" /\ fmtr.direction = "DOWN")
    /\ (fmtr.made /\ fmtr.kind \in {"mermaid", "d2"}) =>
          fmtr.direction \in {"RIGHT", "DOWN"}
    /\ res.op \in {"Mermaid.write", "D2.write"} =>
          /\ res.exc = "none"
          /\ text[1] = DirectionLine(fmtr.kind, fmtr.direction)

\* a D2 constructor has refused an int as direction
C22_Witness ==
    /\ res.op = "Formatter"
    /\ res.why = "d2"
    /\ res.exc = "ValueError"
    /\ passed.kwargs = Kw1("direction", IntCell(1))

(***************************************************************************)
(* Connectivity built from a model: _build_name_map, _model_unit_name,     *)
(* _load_model.  An arc of the flowsheet is [name, src, dst]: the result   *)
(* of getname() and the parent blocks of its source and destination ports; *)
(* a block is [name, cls]: the components of its dotted name and the name  *)
(* of its class.                                                           *)
(***************************************************************************)
Block(name, cls) == [name |-> name, cls |-> cls]

ArcOf(name, src, dst) == [name |-> name, src |-> src, dst |-> dst]

\* the characters of the names, in the order of their code points
CodePoints ==
    Digits \o <<"_", "a", "b", "c", "d", "e", "f", "g", "h", "i", "j", "k", "l",
                "m", "n", "o", "p", "q", "r", "s", "t", "u", "v", "w", "x", "y",
                "z">>

Code(c) == CHOOSE j \in 1..Len(CodePoints) : CodePoints[j] = c

\* a < b for str
RECURSIVE StrLess(_, _)
StrLess(a, b) ==
    IF b = <<>> THEN FALSE
    ELSE IF a = <<>> THEN TRUE
    ELSE IF a[1] # b[1] THEN Code(a[1]) < Code(b[1])
    ELSE StrLess(Tail(a), Tail(b))

\* sorted(arcs, key=lambda arc: arc.getname()): stable
RECURSIVE SortedArcs(_)
SortedArcs(arcs) ==
    IF arcs = <<>> THEN <<>>
    ELSE LET last   == arcs[Len(arcs)]
             before == SortedArcs(SubSeq(arcs, 1, Len(arcs) - 1))
             keep   == Cardinality({j \in 1..Len(before) :
                                       ~StrLess(last.name, before[j].name)})
         IN SubSeq(before, 1, keep) \o <<last>>
            \o SubSeq(before, keep + 1, Len(before))

\* ".".join(components)
RECURSIVE JoinDots(_)
JoinDots(comps) ==
    IF comps = <<>> THEN <<>>
    ELSE IF Len(comps) = 1 THEN comps[1]
    ELSE comps[1] \o <<".">> \o JoinDots(Tail(comps))

\* name_tuples of _build_name_map
RECURSIVE NameTuples(_)
NameTuples(arcs) ==
    IF arcs = <<>> THEN <<>>
    ELSE <<arcs[1].src.name, arcs[1].dst.name>> \o NameTuples(Tail(arcs))

\* {tuple(nm[:n]) for nm in name_tuples}
Prefixes(name_tuples, n) ==
    {SubSeq(name_tuples[j], 1, IF n < Len(name_tuples[j]) THEN n
                                ELSE Len(name_tuples[j])) :
        j \in 1..Len(name_tuples)}

\* the longest name of name_tuples, in components
LongestName(name_tuples) ==
    IF name_tuples = <<>> THEN 0
    ELSE Greatest({Len(name_tuples[j]) : j \in 1..Len(name_tuples)})

\* the while loop of _build_name_map from n: [stops, n].  Once n is past
\* the longest name the prefixes no longer change, and the loop never stops
RECURSIVE PrefixSearch(_, _)
PrefixSearch(name_tuples, n) ==
    IF Cardinality(Prefixes(name_tuples, n)) > 1 THEN [stops |-> TRUE, n |-> n - 1]
    ELSE IF n > LongestName(name_tuples) THEN [stops |-> FALSE, n |-> n]
    ELSE PrefixSearch(name_tuples, n + 1)

\* _build_name_map: [stops, map], map None or a dict
BuildNameMap(arcs) ==
    IF Len(arcs) < 2 THEN [stops |-> TRUE, map |-> None]
    ELSE LET name_tuples == NameTuples(arcs)
             Mapped(f) ==
                 IF ~f.stops THEN [stops |-> FALSE, map |-> None]
                 ELSE IF f.n > 0
                 THEN [stops |-> TRUE,
                       map |-> Some(DictFromItems(
                                   [j \in 1..Len(name_tuples) |->
                                      [k |-> JoinDots(name_tuples[j]),
                                       v |-> JoinDots(SubSeq(name_tuples[j], f.n + 1,
                                                             Len(name_tuples[j])))]]))]
                 ELSE [stops |-> TRUE, map |-> None]
         IN Mapped(PrefixSearch(name_tuples, 1))

\* _model_unit_name
ModelUnitName(name_map, block) ==
    IF name_map = None THEN JoinDots(block.name)
    ELSE DictGet(name_map[1], JoinDots(block.name))

\* the index of x in a list, 0 when it is not there
IndexIn(list, x) ==
    IF \E j \in 1..Len(list) : list[j] = x
    THEN CHOOSE j \in 1..Len(list) : list[j] = x
    ELSE 0

\* the for loop of _load_model over the sorted arcs, from arc j, on the
\* lists and the matrix m = [units, streams, rows, classes] built so far.
\* The class of a block is the name of its class, which the names of the
\* model match whole
RECURSIVE LoadArcs(_, _, _, _)
LoadArcs(arcs, name_map, j, m) ==
    IF j > Len(arcs) THEN m
    ELSE LET src_name == ModelUnitName(name_map, arcs[j].src)
             dst_name == ModelUnitName(name_map, arcs[j].dst)
             classes  == DictSet(DictSet(m.classes, StrCell(src_name), arcs[j].src.cls),
                                 StrCell(dst_name), arcs[j].dst.cls)
             known    == IndexIn(m.streams, arcs[j].name)
             streams  == IF known = 0 THEN Append(m.streams, arcs[j].name)
                         ELSE m.streams
             stream_i == IF known = 0 THEN Len(streams) ELSE known
             rows0    == IF known # 0 THEN m.rows
                         ELSE IF m.rows = <<>> /\ m.streams = <<>> THEN <<<<>>>>
                         ELSE Append(m.rows, [k \in 1..Len(m.rows[1]) |-> 0])
             WithUnit(units, rows, name) ==
                 IF IndexIn(units, name) # 0
                 THEN [units |-> units, rows |-> rows, idx |-> IndexIn(units, name)]
                 ELSE [units |-> Append(units, name),
                       rows  |-> [i \in 1..Len(rows) |-> Append(rows[i], 0)],
                       idx   |-> Len(units) + 1]
             Then(a, b) ==
                 LoadArcs(arcs, name_map, j + 1,
                          [units   |-> b.units,
                           streams |-> streams,
                           rows    |-> [b.rows EXCEPT
                                           ![stream_i] =
                                              [[@ EXCEPT ![a.idx] = -1]
                                                  EXCEPT ![b.idx] = 1]],
                           classes |-> classes])
             Second(a) == Then(a, WithUnit(a.units, a.rows, dst_name))
         IN Second(WithUnit(m.units, rows0, src_name))

\* _load_model: [stops, header, rows, classes]
LoadModel(arcs) ==
    LET sorted_arcs == SortedArcs(arcs)
        Table(m) ==
            [stops   |-> TRUE,
             header  |-> <<StrCell(<<"A", "r", "c", "s">>)>>
                         \o [k \in 1..Len(m.units) |-> StrCell(m.units[k])],
             rows    |-> [i \in 1..Len(m.rows) |->
                            <<StrCell(m.streams[i])>>
                            \o [k \in 1..Len(m.rows[i]) |-> IntCell(m.rows[i][k])]],
             classes |-> m.classes]
        With(nm) ==
            IF ~nm.stops
            THEN [stops |-> FALSE, header |-> <<>>, rows |-> <<>>, classes |-> <<>>]
            ELSE Table(LoadArcs(sorted_arcs, nm.map, 1,
                                [units |-> <<>>, streams |-> <<>>, rows |-> <<>>,
                                 classes |-> <<>>]))
    IN With(BuildNameMap(sorted_arcs))

\* a module to load: whether import_module finds it, the names its build
\* function and the flowsheet attribute of its model have, and the arcs of
\* the flowsheet
Module(importable, build, fs, arcs) ==
    [importable |-> importable, build |-> build, fs |-> fs, arcs |-> arcs]

\* Connectivity(input_module=..., model_flowsheet_attr=..., model_build_func=
\* ...) for a module whose name map is found: [exc, why, conn]
ConstructFromModule(mod, model_flowsheet_attr, model_build_func) ==
    IF ~mod.importable THEN Raised("ModelLoadError", "import")
    ELSE IF mod.build # model_build_func THEN Raised("ModelLoadError", "build")
    ELSE IF model_flowsheet_attr # "" /\ mod.fs # model_flowsheet_attr
    THEN Raised("ModelLoadError", "flowsheet")
    ELSE LET Classes(r, classes) ==
                 IF r.exc = "none" /\ classes # <<>>
                 THEN [r EXCEPT !.conn.unit_classes = classes] ELSE r
             Built(t) == Classes(BuildAll(t.header, t.rows), t.classes)
         IN Built(LoadModel(mod.arcs))

(***************************************************************************)
(* cli.main.  A source argument is described by what main looks at: its    *)
(* text, whether it ends in .csv in any letter case, whether it holds a    *)
(* "/", whether it is a dotted module name, and whether it holds a "."     *)
(* after its first character.  Sources ending in .py and the py mode are   *)
(* left out.                                                               *)
(***************************************************************************)
Source(name, csv, slash, module_name, ext) ==
    [text |-> name, csv |-> csv, slash |-> slash, module_name |-> module_name,
     ext |-> ext]

\* no source argument
NoSource == Source("None", FALSE, FALSE, FALSE, FALSE)

SourcesTried ==
    {NoSource,
     Source("d/t.csv", TRUE, TRUE, FALSE, TRUE),
     Source("T.CSV", TRUE, FALSE, FALSE, TRUE),
     Source("d/t", FALSE, TRUE, FALSE, FALSE),
     Source("d/t.txt", FALSE, TRUE, FALSE, TRUE),
     Source("pkg.mod", FALSE, FALSE, TRUE, TRUE),
     Source("no-such", FALSE, FALSE, FALSE, FALSE)}

\* the blocks and arcs of the flowsheet that the module pkg.mod builds
ExampleArcs ==
    LET m == Block(<<<<"f", "s">>, <<"m">>>>, "Mixer")
        h == Block(<<<<"f", "s">>, <<"h">>>>, "Heater")
        f == Block(<<<<"f", "s">>, <<"f">>>>, "Flash")
    IN <<ArcOf(<<"s", "0", "2">>, h, f), ArcOf(<<"s", "0", "1">>, m, h)>>

\* what importlib.import_module finds for a name: pkg.mod is a module
\* with a function build, whose model has the attribute fs
ModuleNamed(name) ==
    IF name = "pkg.mod" THEN Module(TRUE, "build", "fs", ExampleArcs)
    ELSE Module(FALSE, "", "", <<>>)

\* the command lines: the arguments as argparse leaves them, with whether
\* a file exists at the source path and whether there is a home directory
CommandLines ==
    [source : SourcesTried, exists : BOOLEAN, type : {"None", "csv", "module"},
     to : {"None", "csv", "d2", "html", "mermaid"},
     ofile : {"None", "-", "path"}, labels : BOOLEAN,
     direction : {"LR", "TD"}, fs : {"fs", "foobar"},
     build : {"build", "foobar"}, home : {TRUE}]

\* options = {"stream_labels": args.labels, "direction": args.direction}
Options(args) ==
    [direction     |-> StrCell(IF args.direction = "LR" THEN <<"L", "R">>
                               ELSE <<"T", "D">>),
     stream_labels |-> IF args.labels THEN True ELSE False,
     stream_values |-> NoneCell, unit_values |-> NoneCell,
     unit_class    |-> NoneCell]

\* module_main with _code_main
ModuleMain(args) ==
    LET toFile == args.ofile = "path"
        Wrote(w) ==
            CliResult(IF w.exc = "none" THEN 0 ELSE -1, w.exc,
                      toFile /\ w.opens,
                      IF toFile THEN w.lines ELSE <<>>,
                      IF toFile THEN <<>> ELSE w.lines)
        Loaded(built) ==
            IF built.exc = "ModelLoadError"
            THEN CliResult(1, "none", FALSE, <<>>, <<>>)
            ELSE IF built.exc # "none"
            THEN CliResult(-1, built.exc, FALSE, <<>>, <<>>)
            ELSE Wrote(GetFormatterWrite(built.conn, args.to, args.home,
                                         Options(args)))
    IN Loaded(ConstructFromModule(ModuleNamed(args.source.text), args.fs,
                                  args.build))

\* main(command_line) for the file inp at the source path: the result of
\* the run, and the mode it ran
Main(inp, cmd) ==
    LET Refused(message) ==
            [mode |-> "none", result |-> CliResult(2, "none", FALSE, <<>>, <<message>>)]
        Args(to) == [to |-> to, ofile |-> cmd.ofile, ext |-> cmd.source.ext,
                     home |-> cmd.home, labels |-> cmd.labels,
                     direction |-> cmd.direction, fs |-> cmd.fs,
                     build |-> cmd.build, source |-> cmd.source]
        Csv == [mode |-> "csv",
                result |-> CsvMain(inp, Args(IF cmd.to = "None" THEN "mermaid"
                                             ELSE cmd.to))]
        Mod == [mode |-> "module",
                result |-> ModuleMain(Args(IF cmd.to = "None" THEN "csv"
                                           ELSE cmd.to))]
    IN IF cmd.source = NoSource
       THEN Refused("File or module source is required. Try --usage for details.")
       ELSE IF cmd.type = "None"
       THEN IF cmd.source.csv
            THEN (IF cmd.exists THEN Csv
                  ELSE Refused("Source looks like a CSV file, but does not exist"))
            ELSE IF cmd.source.slash
            THEN (IF cmd.exists THEN Csv
                  ELSE Refused("Source looks like file path, but does not exist"))
            ELSE IF ~cmd.source.module_name
            THEN Refused("Source looks like a module name, but is not valid")
            ELSE Mod
       ELSE IF cmd.type = "csv"
       THEN (IF cmd.exists THEN Csv
             ELSE Refused("Source file path does not exist"))
       ELSE Mod

\* the files at the source path
HeaderOnly == <<<<StrCell(<<"g", "a", "r", "b", "a", "g", "e", "!">>)>>>>

\* csv.reader yields every cell of a file as a string
AsRead(table) ==
    [r \in 1..Len(table) |->
        [k \in 1..Len(table[r]) |->
            IF table[r][k].t = "int" THEN StrCell(IntChars(table[r][k].i))
            ELSE table[r][k]]]

TableWithTwo ==
    <<<<Arcs, U(1), U(2)>>, DataRow(<<"s", "1">>, <<-1, 2>>)>>

TableWithText ==
    <<<<Arcs, U(1), U(2)>>,
      <<StrCell(<<"s", "1">>), StrCell(<<"-", "1">>), StrCell(<<"a", "b", "c">>)>>>>

MainFiles ==
    {AsRead(t) : t \in {TableChain, TableInternal, <<>>, HeaderOnly,
                        TableWithTwo, TableWithText}}

MainInit ==
    /\ input \in {Input([kind |-> "path", named |-> TRUE], t) : t \in MainFiles}
    /\ conn = NoConn
    /\ res = Result("start", "none", "")
    /\ csvOut = <<>>
    /\ text = <<>>
    /\ fmtr = NoFormatter
    /\ cli = NoCli
    /\ heap = NoObjects
    /\ out = NoOut
    /\ passed = NoPassed
    /\ defaults = StandardDefaults
    /\ proc = NoProc
    /\ twin = NoTwin

\* main(command_line) in a fresh process
DoMain ==
    /\ res.op = "start"
    /\ \E cmd \in CommandLines :
          \E r \in {Main(input, cmd)} :
             /\ cli' = [ran |-> TRUE, args |-> cmd, result |-> r.result]
             /\ res' = Result("main", r.result.raised, r.mode)
    /\ UNCHANGED <<input, conn, csvOut, text, fmtr, heap, out, passed, defaults, proc, twin>>

MainNext == DoMain

SpecMain == MainInit /\ [][MainNext]_vars

(***************************************************************************)
(* Claims on cli.main.                                                     *)
(***************************************************************************)
\* the format of the run: --to, or the default of the mode
FormatOf(cmd, mode) ==
    IF cmd.to # "None" THEN cmd.to
    ELSE IF mode = "csv" THEN "mermaid" ELSE "csv"

\* the text the run has produced, in a file or on the console
MainOutput ==
    IF cli.result.opened THEN cli.result.written ELSE cli.result.console

\* the text of the formatter that takes the options of the command line
TextWithOptions(c, cmd, mode) ==
    GetFormatterWrite(c, FormatOf(cmd, mode), cmd.home, Options(cmd)).lines

\* C23, as stated: a run on a CSV source that writes Mermaid or D2 writes
\* the text of the formatter given --labels and --direction: its edges
\* carry the stream names with --labels, and it declares the top-down
\* direction with --direction TD.
C23_AsStated ==
    ( /\ cli.ran
      /\ res.why = "csv"
      /\ cli.result.ret = 0
      /\ FormatOf(cli.args, "csv") \in {"mermaid", "d2"} ) =>
        /\ MainOutput = TextWithOptions(Construct(input).conn, cli.args, "csv")
        /\ cli.args.direction = "TD" =>
              DirectionLine(FormatOf(cli.args, "csv"), "DOWN") \in Range(MainOutput)

\* the source of the command line looks like a file: main tests its path
LooksLikeFile(cmd) ==
    cmd.type = "csv" \/ (cmd.type = "None" /\ (cmd.source.csv \/ cmd.source.slash))

\* the Connectivity that the run builds from its source: [exc, why, conn]
BuiltFrom(inp, cmd, mode) ==
    IF mode = "csv" THEN Construct(inp)
    ELSE ConstructFromModule(ModuleNamed(cmd.source.text), cmd.fs, cmd.build)

\* C24, as stated: main returns 2 when the source is missing or does not
\* exist; when it runs a mode, it returns 1 without raising if the
\* connectivity cannot be built from the source, and returns 0 after
\* writing the output if it can.
C24_AsStated ==
    cli.ran =>
        /\ cli.args.source = NoSource => cli.result.ret = 2
        /\ (cli.args.source # NoSource /\ LooksLikeFile(cli.args) /\ ~cli.args.exists)
              => cli.result.ret = 2
        /\ res.why \in {"csv", "module"} =>
              \E built \in {BuiltFrom(input, cli.args, res.why)} :
                 IF built.exc # "none"
                 THEN cli.result.ret = 1 /\ cli.result.raised = "none"
                 ELSE /\ cli.result.ret = 0
                      /\ cli.result.raised = "none"
                      /\ MainOutput # <<>>

\* the part of C24 that holds whatever the file: the refusals of main, and
\* the module mode
C24_RefusalsAndModules ==
    cli.ran =>
        /\ cli.args.source = NoSource => cli.result.ret = 2
        /\ (cli.args.source # NoSource /\ LooksLikeFile(cli.args) /\ ~cli.args.exists)
              => cli.result.ret = 2
        /\ res.why = "module" =>
              \E built \in {BuiltFrom(input, cli.args, res.why)} :
                 IF built.exc # "none"
                 THEN cli.result.ret = 1 /\ cli.result.raised = "none"
                 ELSE /\ cli.result.ret = 0
                      /\ cli.result.raised = "none"
                      /\ MainOutput # <<>>

\* C26, as stated: a run in csv mode without an output file option, on a
\* file that holds a valid table, writes its output to the file named
\* after the source, whether or not the source name has an extension and
\* whatever the format given with --to.
C26_AsStated ==
    ( /\ cli.ran
      /\ res.why = "csv"
      /\ cli.args.ofile = "None"
      /\ Construct(input).exc = "none" ) =>
        /\ cli.result.raised = "none"
        /\ cli.result.ret = 0
        /\ cli.result.opened
        /\ cli.result.written # <<>>

(***************************************************************************)
(* Claims on the connections that _build_connections leaves.               *)
(***************************************************************************)
\* the cells that write the slot of a stream: <<row, column>> with a
\* non-empty row of that stream and a cell under a header column whose
\* normalized value is that of the slot (-1 for slot 1, +1 for slot 2)
WritersOf(c, stream_abbr, slot) ==
    {w \in (1..Len(c.rows)) \X (1..(Len(c.header) - 1)) :
        /\ c.rows[w[1]] # <<>>
        /\ DictGet(c.streams, c.rows[w[1]][1]) = stream_abbr
        /\ ConnValue(c.rows[w[1]][w[2] + 1]).v = (IF slot = 1 THEN -1 ELSE 1)}

\* the writer that the loop reaches last: the last row, and in it the
\* rightmost column
LastWriter(ws) ==
    CHOOSE w \in ws :
        \A x \in ws : x[1] < w[1] \/ (x[1] = w[1] /\ x[2] <= w[2])

MaxIterations == 6

\* the blocks of the models tried, named fs.m, fs.h, fs.u.f and m
BlocksTried ==
    {Block(<<<<"f", "s">>, <<"m">>>>, "Mixer"),
     Block(<<<<"f", "s">>, <<"h">>>>, "Heater"),
     Block(<<<<"f", "s">>, <<"u">>, <<"f">>>>, "Flash"),
     Block(<<<<"m">>>>, "Mixer")}

\* the arcs of the models tried: none, s2, or s2 and s1
ArcsTried ==
    {<<>>}
    \cup {<<ArcOf(<<"s", "2">>, a, b)>> : a \in BlocksTried, b \in BlocksTried}
    \cup {<<ArcOf(<<"s", "2">>, a, b), ArcOf(<<"s", "1">>, c, d)>> :
             a \in BlocksTried, b \in BlocksTried, c \in BlocksTried,
             d \in BlocksTried}

\* iterations counts the passes of the while loop made so far
Locals(pc, arcs, name_tuples, n, iterations, name_map) ==
    [pc |-> pc, arcs |-> arcs, name_tuples |-> name_tuples, n |-> n,
     iterations |-> iterations, name_map |-> name_map]

NamesInit ==
    /\ input = Input([kind |-> "model", named |-> FALSE], <<>>)
    /\ conn = NoConn
    /\ res = Result("start", "none", "")
    /\ csvOut = <<>>
    /\ text = <<>>
    /\ fmtr = NoFormatter
    /\ cli = NoCli
    /\ heap = NoObjects
    /\ out = NoOut
    /\ passed = NoPassed
    /\ defaults = StandardDefaults
    /\ proc = NoProc
    /\ twin = NoTwin

\* _load_model up to the while loop of _build_name_map, or to its return
\* when there are fewer than two arcs
NameMapBegin ==
    /\ proc.pc = "none"
    /\ \E arcs \in ArcsTried :
          \E sorted_arcs \in {SortedArcs(arcs)} :
             proc' = IF Len(sorted_arcs) < 2
                     THEN Locals("return", sorted_arcs, <<>>, 0, 0, None)
                     ELSE Locals("while", sorted_arcs, NameTuples(sorted_arcs),
                                 1, 0, None)
    /\ UNCHANGED <<input, conn, res, csvOut, text, fmtr, cli, heap, out, passed, defaults, twin>>

\* one iteration of the while loop
NameMapWhile ==
    /\ proc.pc = "while"
    /\ proc.iterations < MaxIterations
    /\ proc' = IF Cardinality(Prefixes(proc.name_tuples, proc.n)) > 1
               THEN [proc EXCEPT !.pc = "break", !.n = @ - 1,
                                 !.iterations = @ + 1]
               ELSE [proc EXCEPT !.n = @ + 1, !.iterations = @ + 1]
    /\ UNCHANGED <<input, conn, res, csvOut, text, fmtr, cli, heap, out, passed, defaults, twin>>

\* the statements of _build_name_map after the loop
NameMapBreak ==
    /\ proc.pc = "break"
    /\ proc' = [proc EXCEPT
                  !.pc = "return",
                  !.name_map =
                     IF proc.n > 0
                     THEN Some(DictFromItems(
                             [j \in 1..Len(proc.name_tuples) |->
                                [k |-> JoinDots(proc.name_tuples[j]),
                                 v |-> JoinDots(SubSeq(proc.name_tuples[j],
                                                       proc.n + 1,
                                                       Len(proc.name_tuples[j])))]]))
                     ELSE None]
    /\ UNCHANGED <<input, conn, res, csvOut, text, fmtr, cli, heap, out, passed, defaults, twin>>

\* the rest of _load_model and of __init__
LoadModelRest ==
    /\ proc.pc = "return"
    /\ \E m \in {LoadArcs(proc.arcs, proc.name_map, 1,
                          [units |-> <<>>, streams |-> <<>>, rows |-> <<>>,
                           classes |-> <<>>])} :
          \E r \in {BuildAll(<<Arcs>> \o [k \in 1..Len(m.units) |-> StrCell(m.units[k])],
                             [i \in 1..Len(m.rows) |->
                                <<StrCell(m.streams[i])>>
                                \o [k \in 1..Len(m.rows[i]) |-> IntCell(m.rows[i][k])]])} :
             /\ conn' = IF r.exc = "none" /\ m.classes # <<>>
                        THEN [r.conn EXCEPT !.unit_classes = m.classes]
                        ELSE r.conn
             /\ res' = Result("Connectivity", r.exc, r.why)
    /\ proc' = [proc EXCEPT !.pc = "done"]
    /\ UNCHANGED <<input, csvOut, text, fmtr, cli, heap, out, passed, defaults, twin>>

NamesNext == NameMapBegin \/ NameMapWhile \/ NameMapBreak \/ LoadModelRest

SpecNames == NamesInit /\ [][NamesNext]_vars

\* C27, as stated: the common-prefix search runs no more iterations than
\* the longest unit name has dotted components, whatever the arcs are,
\* also when all their endpoints are blocks of one name.
C27_AsStated ==
    proc.pc \in {"while", "break"} =>
        proc.iterations <= LongestName(proc.name_tuples)

\* the loads that end give the Connectivity of _load_model
C27_StepsAgree ==
    proc.pc = "done" =>
        \E t \in {LoadModel(proc.arcs)} :
           /\ t.stops
           /\ conn.header = t.header
           /\ conn.rows = t.rows

(***************************************************************************)
(* The endpoints of the edges in the Mermaid and D2 text.                  *)
(***************************************************************************)
\* the name of the stream with an abbreviation
StreamNamed(abbr) == conn.streams[StreamIndexOf(abbr)].k

\* the value node of a stream in Mermaid and in D2 text
ValueNode(kind, abbr) ==
    IF kind = "mermaid" THEN abbr \o "_V" ELSE "S_" \o Text(StreamNamed(abbr).s)

\* the identifiers that the text can hold as an endpoint of an edge: the
\* units, the streams, their value nodes, the feeds and sinks, and what
\* str() gives for a missing endpoint, with or without a number after it
EndpointTexts(kind) ==
    Range(DictValues(conn.units))
    \cup Range(DictValues(conn.streams))
    \cup {ValueNode(kind, a) : a \in Range(DictValues(conn.streams))}
    \cup {"f" \o ToString(i) : i \in 1..Len(conn.streams)}
    \cup {"s" \o ToString(i) : i \in 1..Len(conn.streams)}
    \cup {"None"}
    \cup {"None" \o ToString(i) : i \in 1..Len(conn.streams)}

\* the nodes that the text declares: every unit; in Mermaid the streams
\* with a node line and the value nodes of the annotated streams when
\* stream values are shown; in D2 the feeds and sinks with a node line and
\* the value nodes of the annotated streams between two units
DeclaredNodes(kind) ==
    Range(DictValues(conn.units))
    \cup {a \in Range(DictValues(conn.streams)) :
             /\ kind = "mermaid"
             /\ (fmtr.indent \o a \o "([" \o QuoteName(StreamNamed(a)) \o "])")
                   \in Range(text)}
    \cup {ValueNode(kind, a) : a \in
             {a \in Range(DictValues(conn.streams)) :
                 /\ fmtr.stream_values
                 /\ Annotated(StreamNamed(a))
                 /\ kind = "d2" =>
                       Endpoints(DictGet(conn.connections, a)) = {1, 2}}}
    \cup {"f" \o ToString(i) : i \in
             {i \in 1..Len(conn.streams) :
                 kind = "d2" /\ ("f" \o ToString(i) \o ": Feed " \o ToString(i))
                                   \in Range(text)}}
    \cup {"s" \o ToString(i) : i \in
             {i \in 1..Len(conn.streams) :
                 kind = "d2" /\ ("s" \o ToString(i) \o ": Sink " \o ToString(i))
                                   \in Range(text)}}

\* the lines that are an edge from a to b, with or without a label
EdgeLines(kind, a, b) ==
    IF kind = "mermaid"
    THEN {fmtr.indent \o a \o " --> " \o b, fmtr.indent \o a \o " --- " \o b}
         \cup {fmtr.indent \o a \o " -- " \o CleanStreamLabel(conn.streams[j].k.s)
               \o " -->" \o b : j \in 1..Len(conn.streams)}
    ELSE {a \o " -> " \o b}
         \cup {a \o " -> " \o b \o ": " \o Text(conn.streams[j].k.s) :
                  j \in 1..Len(conn.streams)}
         \cup {a \o " -> " \o m \o " -> " \o b : m \in EndpointTexts(kind)}
         \cup {m \o " -> " \o a \o " -> " \o b : m \in EndpointTexts(kind)}

\* the formatter holds no value node from an earlier write: its text is
\* that of a freshly constructed formatter
NothingStale ==
    \A a \in Range(DictValues(conn.streams)) :
        (a \o "_V") \in fmtr.streams_with_values => Annotated(StreamNamed(a))

\* every edge of the text joins declared nodes
EdgesJoinDeclared(kind) ==
    \A a \in EndpointTexts(kind), b \in EndpointTexts(kind) :
        (a \notin DeclaredNodes(kind) \/ b \notin DeclaredNodes(kind)) =>
            EdgeLines(kind, a, b) \cap Range(text) = {}

\* C28, as stated: in the text that the write of a freshly constructed
\* Mermaid or D2 returned, both endpoints of every edge line are nodes
\* that the text declares, and no endpoint is the text None, whatever
\* endpoints the streams have.
C28_AsStated ==
    /\ (MermaidReturned /\ NothingStale) => EdgesJoinDeclared("mermaid")
    /\ D2Returned => EdgesJoinDeclared("d2")

(***************************************************************************)
(* A Connectivity constructed from units, streams and connections, beside  *)
(* the one parsed from the matrix that has them.  __init__ (lines 124-128) *)
(* assigns units, _unit_classes, streams and connections to the first and  *)
(* no other attribute; missing is the set of the attributes of the parsed  *)
(* object that it does not have.                                           *)
(***************************************************************************)
Missing(c) == IF "missing" \in DOMAIN c THEN c.missing ELSE {}

\* Connectivity(units=..., streams=..., connections=...)
ConstructDirect(units, streams, connections) ==
    [built |-> TRUE, header |-> <<>>, rows |-> <<>>, units |-> units,
     streams |-> streams, connections |-> connections,
     unit_classes |-> DictFromKeys(DictKeys(units), DEFAULT_UNIT_CLASS),
     unit_values |-> <<>>, stream_values |-> <<>>,
     missing |-> {"_header", "_rows", "_unit_values", "_stream_values"}]

\* an assignment to an attribute creates it
Assigned(c, attr) ==
    IF "missing" \in DOMAIN c THEN [c EXCEPT !.missing = @ \ {attr}] ELSE c

\* c.set_stream_value(name, key, value) and c.set_unit_value(...): [exc, conn]
ObjSetValue(c, which, name, key, value) ==
    IF which = "stream"
    THEN IF "_stream_values" \in Missing(c)
         THEN [exc |-> "AttributeError", conn |-> c]
         ELSE LET Set(r) == [exc |-> r.exc,
                             conn |-> [c EXCEPT !.stream_values = r.vals]]
              IN Set(SetValue(c.stream_values, name, key, value))
    ELSE IF "_unit_values" \in Missing(c)
         THEN [exc |-> "AttributeError", conn |-> c]
         ELSE LET Set(r) == [exc |-> r.exc,
                             conn |-> [c EXCEPT !.unit_values = r.vals]]
              IN Set(SetValue(c.unit_values, name, key, value))

\* c.clear_stream_values() and c.clear_unit_values()
ObjClearValues(c, which) ==
    IF which = "stream"
    THEN Assigned([c EXCEPT !.stream_values = <<>>], "_stream_values")
    ELSE Assigned([c EXCEPT !.unit_values = <<>>], "_unit_values")

\* the dict of a values property, an item a line
ViewLines(values) ==
    [n \in 1..Len(values) |->
        Text(values[n].k.s) \o ": " \o D2FormatValues(ValuesView(values)[n].v)]

\* c.stream_values and c.unit_values: [exc, text]
ObjValues(c, which) ==
    IF which = "stream"
    THEN IF "_stream_values" \in Missing(c)
         THEN [exc |-> "AttributeError", text |-> <<>>]
         ELSE [exc |-> "none", text |-> ViewLines(c.stream_values)]
    ELSE IF "_unit_values" \in Missing(c)
         THEN [exc |-> "AttributeError", text |-> <<>>]
         ELSE [exc |-> "none", text |-> ViewLines(c.unit_values)]

\* CSV(c).write(None): as_table reads _header and _rows
ObjCsvWrite(c) ==
    IF {"_header", "_rows"} \cap Missing(c) # {}
    THEN [exc |-> "AttributeError", text |-> <<>>]
    ELSE [exc |-> "none", text |-> CsvLines(CSVWrite(c))]

\* Mermaid(c, **kw).write(None): _body reads stream_values when stream
\* values are shown, _get_mermaid_units reads unit_values when unit values
\* are shown
ObjMermaidWrite(c, kw, order) ==
    LET Wrote(r) == [exc |-> r.exc,
                     text |-> IF r.exc = "none" THEN r.lines ELSE <<>>]
        With(fmt) ==
            IF \/ fmt.stream_values /\ "_stream_values" \in Missing(c)
               \/ fmt.unit_values /\ "_unit_values" \in Missing(c) /\ c.units # <<>>
            THEN [exc |-> "AttributeError", text |-> <<>>]
            ELSE Wrote(MermaidBody(c, fmt, order))
    IN With(NewFormatter("mermaid", kw).fmt)

\* D2(c, **kw).write(None): _get_unit_values reads unit_values when unit
\* values are shown, and the loop over the connections reads stream_values
\* for a stream with both endpoints when stream values are shown
ObjD2Write(c, kw) ==
    LET Wrote(r) == [exc |-> r.exc,
                     text |-> IF r.exc = "none" THEN r.lines ELSE <<>>]
        With(fmt) ==
            IF \/ fmt.unit_values /\ "_unit_values" \in Missing(c) /\ c.units # <<>>
               \/ /\ fmt.stream_values
                  /\ "_stream_values" \in Missing(c)
                  /\ \E j \in 1..Len(c.connections) :
                        None \notin Range(c.connections[j].v)
            THEN [exc |-> "AttributeError", text |-> <<>>]
            ELSE Wrote(D2Write(c, fmt, TRUE))
    IN With(NewFormatter("d2", kw).fmt)

\* the options of the formatters tried on the two objects
DirectKw ==
    {Kw(NoneCell, NoneCell, NoneCell, NoneCell, NoneCell),
     Kw(NoneCell, True, NoneCell, NoneCell, NoneCell),
     Kw(NoneCell, True, True, NoneCell, NoneCell),
     Kw(StrCell(<<"T", "D">>), NoneCell, NoneCell, True, True)}

DirectInit ==
    /\ input \in {Input([kind |-> "data", named |-> FALSE], t) : t \in UseTables}
    /\ conn = NoConn
    /\ res = Result("start", "none", "")
    /\ csvOut = <<>>
    /\ text = <<>>
    /\ fmtr = NoFormatter
    /\ cli = NoCli
    /\ heap = NoObjects
    /\ out = NoOut
    /\ passed = NoPassed
    /\ defaults = StandardDefaults
    /\ proc = NoProc
    /\ twin = NoTwin

\* twin = Connectivity(input_data=...);
\* conn = Connectivity(units=twin.units, streams=twin.streams,
\*                     connections=twin.connections)
DoConstructBoth ==
    /\ res.op = "start"
    /\ \E r \in {Construct(input)} :
          /\ r.exc = "none"
          /\ twin' = [conn |-> r.conn, exc |-> "none", text |-> <<>>]
          /\ conn' = ConstructDirect(r.conn.units, r.conn.streams,
                                     r.conn.connections)
    /\ res' = Result("Connectivity", "none", "")
    /\ UNCHANGED <<input, csvOut, text, fmtr, cli, heap, out, passed, defaults, proc>>

\* set_stream_value(name, "T", 1) or set_unit_value(name, "T", 1) on both
BothSetValue ==
    /\ conn.built
    /\ \E which \in {"stream", "unit"} :
          \E name \in Range(FirstKeys(IF which = "stream" THEN conn.streams
                                      ELSE conn.units, 2)) :
             \E a \in {ObjSetValue(conn, which, name, "T", PlainValue(1))},
                b \in {ObjSetValue(twin.conn, which, name, "T", PlainValue(1))} :
                /\ conn' = a.conn
                /\ res' = Result("set_" \o which \o "_value", a.exc, NameGiven(name))
                /\ twin' = [conn |-> b.conn, exc |-> b.exc, text |-> <<>>]
    /\ text' = <<>>
    /\ UNCHANGED <<input, csvOut, fmtr, cli, heap, out, passed, defaults, proc>>

\* clear_stream_values() or clear_unit_values() on both
BothClearValues ==
    /\ conn.built
    /\ \E which \in {"stream", "unit"} :
          /\ conn' = ObjClearValues(conn, which)
          /\ res' = Result("clear_" \o which \o "_values", "none", "")
          /\ twin' = [conn |-> ObjClearValues(twin.conn, which), exc |-> "none",
                      text |-> <<>>]
    /\ text' = <<>>
    /\ UNCHANGED <<input, csvOut, fmtr, cli, heap, out, passed, defaults, proc>>

\* a read of stream_values or unit_values on both
BothValues ==
    /\ conn.built
    /\ \E which \in {"stream", "unit"} :
          \E a \in {ObjValues(conn, which)}, b \in {ObjValues(twin.conn, which)} :
             /\ text' = a.text
             /\ res' = Result(which \o "_values", a.exc, "")
             /\ twin' = [twin EXCEPT !.exc = b.exc, !.text = b.text]
    /\ UNCHANGED <<input, conn, csvOut, fmtr, cli, heap, out, passed, defaults, proc>>

\* CSV(c).write(None) on both
BothCsvWrite ==
    /\ conn.built
    /\ \E a \in {ObjCsvWrite(conn)}, b \in {ObjCsvWrite(twin.conn)} :
          /\ text' = a.text
          /\ res' = Result("CSV.write", a.exc, "")
          /\ twin' = [twin EXCEPT !.exc = b.exc, !.text = b.text]
    /\ UNCHANGED <<input, conn, csvOut, fmtr, cli, heap, out, passed, defaults, proc>>

\* Mermaid(c, **kw).write(None) on both, the value nodes in the same order
BothMermaidWrite ==
    /\ conn.built
    /\ \E kw \in DirectKw :
          \E order \in Orders(StreamsWithValuesAfter(twin.conn,
                                                     NewFormatter("mermaid", kw).fmt)) :
             \E a \in {ObjMermaidWrite(conn, kw, order)},
                b \in {ObjMermaidWrite(twin.conn, kw, order)} :
                /\ text' = a.text
                /\ res' = Result("Mermaid.write", a.exc, "")
                /\ twin' = [twin EXCEPT !.exc = b.exc, !.text = b.text]
    /\ UNCHANGED <<input, conn, csvOut, fmtr, cli, heap, out, passed, defaults, proc>>

\* D2(c, **kw).write(None) on both
BothD2Write ==
    /\ conn.built
    /\ \E kw \in DirectKw :
          \E a \in {ObjD2Write(conn, kw)}, b \in {ObjD2Write(twin.conn, kw)} :
             /\ text' = a.text
             /\ res' = Result("D2.write", a.exc, "")
             /\ twin' = [twin EXCEPT !.exc = b.exc, !.text = b.text]
    /\ UNCHANGED <<input, conn, csvOut, fmtr, cli, heap, out, passed, defaults, proc>>

DirectNext ==
    \/ DoConstructBoth
    \/ BothSetValue
    \/ BothClearValues
    \/ BothValues
    \/ BothCsvWrite
    \/ BothMermaidWrite
    \/ BothD2Write

SpecDirect == DirectInit /\ [][DirectNext]_vars

\* C29, as stated: every call on the Connectivity constructed from the
\* units, streams and connections dictionaries completes or fails as the
\* same call on the Connectivity parsed from the matrix does, and returns
\* the same text or values.
C29_AsStated ==
    conn.built => (res.exc = twin.exc /\ text = twin.text)

(***************************************************************************)
(* FileServer._read_int_eventually step by step: one pass of its while     *)
(* loop per step, while another process creates, writes and removes the    *)
(* file.  proc holds the locals of the method and the file at the path:    *)
(* None when there is no file, else the characters of its first line.      *)
(***************************************************************************)
\* the passes of the while loop that the model follows
MaxPasses == 8

\* int(value_str) of a stripped line: [ok, v]
IntOfStr(cs) ==
    LET Unsigned(t, neg) ==
            IF t # <<>> /\ AllDigits(t)
            THEN [ok |-> TRUE, v |-> IF neg THEN -DigitsValue(t) ELSE DigitsValue(t)]
            ELSE [ok |-> FALSE, v |-> 0]
    IN IF cs # <<>> /\ cs[1] \in {"+", "-"}
       THEN Unsigned(Tail(cs), cs[1] = "-")
       ELSE Unsigned(cs, FALSE)

\* the states of the file: absent, created and still empty, holding a
\* port or pid, holding text, holding a negative number
FileStates ==
    {None, Some(<<>>), Some(<<"8", "0", "0", "0">>), Some(<<"0">>),
     Some(<<" ", "4", "2">>), Some(<<"a", "b", "c">>), Some(<<"-", "1">>)}

\* passes counts the passes of the loop made so far
ReadLocals(pc, value, tries, passes, file, exc) ==
    [pc |-> pc, value |-> value, tries |-> tries, passes |-> passes,
     file |-> file, exc |-> exc]

ReadInit ==
    /\ input = Input([kind |-> "path", named |-> TRUE], <<>>)
    /\ conn = NoConn
    /\ res = Result("start", "none", "")
    /\ csvOut = <<>>
    /\ text = <<>>
    /\ fmtr = NoFormatter
    /\ cli = NoCli
    /\ heap = NoObjects
    /\ out = NoOut
    /\ passed = NoPassed
    /\ defaults = StandardDefaults
    /\ proc = NoProc
    /\ twin = NoTwin

\* the call of _read_int_eventually(path, name): value, tries = -1, 0
ReadBegin ==
    /\ proc.pc = "none"
    /\ \E file \in FileStates :
          proc' = ReadLocals("while", -1, 0, 0, file, "none")
    /\ UNCHANGED <<input, conn, res, csvOut, text, fmtr, cli, heap, out, passed, defaults, twin>>

\* one pass of the while loop, to the end of time.sleep(1)
ReadPass ==
    /\ proc.pc = "while"
    /\ proc.value < 0 /\ proc.tries < 5
    /\ proc.passes < MaxPasses
    /\ proc' =
          IF proc.file = None
          THEN [proc EXCEPT !.tries = @ + 1, !.passes = @ + 1]
          ELSE LET Parsed(r) ==
                       IF r.ok THEN [proc EXCEPT !.value = r.v, !.passes = @ + 1]
                       ELSE [proc EXCEPT !.pc = "raised", !.exc = "RuntimeError",
                                         !.passes = @ + 1]
               IN Parsed(IntOfStr(Strip(proc.file[1])))
    /\ UNCHANGED <<input, conn, res, csvOut, text, fmtr, cli, heap, out, passed, defaults, twin>>

\* the statements after the loop
ReadEnd ==
    /\ proc.pc = "while"
    /\ ~(proc.value < 0 /\ proc.tries < 5)
    /\ proc' = IF proc.value < 0
               THEN [proc EXCEPT !.pc = "raised", !.exc = "RuntimeError"]
               ELSE [proc EXCEPT !.pc = "returned"]
    /\ res' = Result("_read_int_eventually",
                     IF proc.value < 0 THEN "RuntimeError" ELSE "none", "")
    /\ UNCHANGED <<input, conn, csvOut, text, fmtr, cli, heap, out, passed, defaults, twin>>

\* another process creates, writes or removes the file during the sleep
FileChanges ==
    /\ proc.pc = "while"
    /\ \E file \in FileStates \ {proc.file} : proc' = [proc EXCEPT !.file = file]
    /\ UNCHANGED <<input, conn, res, csvOut, text, fmtr, cli, heap, out, passed, defaults, twin>>

ReadNext == ReadBegin \/ ReadPass \/ ReadEnd \/ FileChanges

SpecRead == ReadInit /\ [][ReadNext]_vars

\* C30, as stated: whatever the file holds and whenever it exists, the
\* method makes at most 5 passes that do not read a non-negative integer,
\* and it ends by returning a non-negative integer or by raising
\* RuntimeError.
C30_AsStated ==
    /\ proc.pc = "while" => proc.passes <= 5
    /\ proc.pc = "returned" => proc.value >= 0
    /\ proc.pc = "raised" => proc.exc = "RuntimeError"
====
